---- MODULE Spec2Model ----
(***************************************************************************)
(* A model of the dice engine (dice_system.py, class DiceRoller), of the    *)
(* party model (party_builder.py, classes PartyMember, PartyBuilder) and   *)
(* of the sessions that use them (dnd_master.py, class DnDMaster, and      *)
(* dnd_master_gui.py, class DnDMasterGUI): the stored parties, the party   *)
(* creation flow, the chat and the dice challenge.                         *)
(*                                                                         *)
(* A Python str is a sequence of one-character strings, so that parsing,   *)
(* formatting and int() conversion work on characters.  A Python dict is   *)
(* a function whose domain is the set of its keys.                         *)
(***************************************************************************)
EXTENDS Integers, Sequences, FiniteSets, TLC

VARIABLES
    pc,         \* "call": an operation was invoked; "done": it has returned
    call,       \* the invoked DiceRoller operation and its arguments
    drawn,      \* the values random.randint returned during the call, in order
    result,     \* the dict the operation returned
    formatted,  \* the str format_roll_result returned for result
    _members,   \* PartyBuilder._members
    coin,       \* PartyBuilder.coin
    rations,    \* PartyBuilder.rations
    party_tags, \* PartyBuilder.party_tags
    last,       \* the last PartyBuilder operation, its argument and how it ended
    callers,    \* the callers of add_member on one builder, and where each is
    exclusive,  \* TRUE when the callers take the builder one at a time
    heap,       \* the list and dict objects more than one structure refers to
    payloads,   \* the payloads build_payload returned, as their caller holds them
    lists,      \* the lists the members property returned, as their caller holds them
    app,        \* "cli": dnd_master.py; "gui": dnd_master_gui.py
    master_pc,  \* where the session is: construction, scenario choice, creation flow, play
    party_state_file,   \* the content of party_state.json
    party_store,        \* self.party_store
    current_scenario,   \* self.current_scenario
    party_state,        \* self.party_state
    party_size,         \* the party size asked for by the creation flow
    send_button,              \* state of self.send_button
    challenge_button,         \* state of self.challenge_button
    challenge_submit_button,  \* state of self.challenge_submit_button
    challenge_cancel_button,  \* state of self.challenge_cancel_button
    challenge_frame,          \* "packed" while the challenge panel is shown
    active_dice_challenge,    \* self.active_dice_challenge
    conversation_history,     \* self.conversation_history
    workers,                  \* the worker threads started and not yet finished
    after_queue               \* the callbacks given to root.after, not yet run

diceVars   == <<pc, call, drawn, result>>
partyVars  == <<_members, coin, rations, party_tags, last>>
formatVars == <<formatted>>
concVars   == <<callers, exclusive>>
aliasVars  == <<heap, payloads, lists>>
masterVars == <<app, master_pc, party_state_file, party_store, current_scenario,
                party_state, party_size>>
guiVars    == <<send_button, challenge_button, challenge_submit_button,
                challenge_cancel_button, challenge_frame, active_dice_challenge,
                conversation_history, workers, after_queue>>
appVars    == <<formatVars, concVars, aliasVars, masterVars, guiVars>>
vars       == <<diceVars, partyVars, appVars>>

(***************************************************************************)
(* Bounds of the model.                                                    *)
(***************************************************************************)
MaxCount    == 3    \* explicit dice counts 0..MaxCount are written in notations
MaxMod      == 3    \* modifiers 0..MaxMod are written after the sign
MaxBonus    == 1    \* bonuses -MaxBonus..MaxBonus are passed to composite rolls
MaxJunkLen  == 2    \* every string over Alphabet up to this length is an input
MaxOutcomes == 400  \* a notation is rolled when sides^count is at most this

(***************************************************************************)
(* Characters and Python's str <-> int conversions.                        *)
(***************************************************************************)
Digits == {"0", "1", "2", "3", "4", "5", "6", "7", "8", "9"}

\* str.isspace characters that can remain after replace(' ', ''); only the
\* tab is in the alphabet of the inputs.
Whitespace == {" ", "\t"}

Alphabet == Digits \cup {"d", "D", "+", "-", " ", "\t", "_", "x", "a"}

IsDigit(c) == c \in Digits

DigitVal(c) ==
    CASE c = "0" -> 0 [] c = "1" -> 1 [] c = "2" -> 2 [] c = "3" -> 3
      [] c = "4" -> 4 [] c = "5" -> 5 [] c = "6" -> 6 [] c = "7" -> 7
      [] c = "8" -> 8 [] c = "9" -> 9

DigitChar(n) == CHOOSE c \in Digits : DigitVal(c) = n

\* int(s) for a str s of decimal digits only.
RECURSIVE DigitsToNat(_)
DigitsToNat(s) ==
    IF s = <<>> THEN 0
    ELSE 10 * DigitsToNat(SubSeq(s, 1, Len(s) - 1)) + DigitVal(s[Len(s)])

\* str(n) for an int n >= 0, as the f-strings format it: no leading zeros.
RECURSIVE NatToStr(_)
NatToStr(n) ==
    IF n < 10 THEN <<DigitChar(n)>>
    ELSE NatToStr(n \div 10) \o <<DigitChar(n % 10)>>

\* The length of the longest prefix of s made of digits: what re.match with
\* the greedy pattern ^(\d+) consumes (0: no match).
DigitRun(s) ==
    CHOOSE k \in 0..Len(s) :
        /\ \A i \in 1..k : IsDigit(s[i])
        /\ k = Len(s) \/ ~IsDigit(s[k + 1])

StartsWith(s, c) == Len(s) > 0 /\ s[1] = c

Drop(s, k) == SubSeq(s, k + 1, Len(s))

\* s.strip(): leading and trailing whitespace removed, as int() does first.
RECURSIVE Strip(_)
Strip(s) ==
    IF s = <<>> THEN s
    ELSE IF s[1] \in Whitespace THEN Strip(Tail(s))
    ELSE IF s[Len(s)] \in Whitespace THEN Strip(SubSeq(s, 1, Len(s) - 1))
    ELSE s

\* The digits part of an int() literal: digits, with single underscores
\* allowed between two digits.
IsIntBody(b) ==
    /\ Len(b) > 0
    /\ \A i \in 1..Len(b) : IsDigit(b[i]) \/ b[i] = "_"
    /\ IsDigit(b[1]) /\ IsDigit(b[Len(b)])
    /\ \A i \in 1..(Len(b) - 1) : ~(b[i] = "_" /\ b[i + 1] = "_")

\* Python's int(s) on a str: surrounding whitespace is ignored, one sign is
\* accepted, then IsIntBody; anything else raises ValueError.
PyInt(s) ==
    LET t    == Strip(s)
        sgn  == IF StartsWith(t, "-") THEN -1 ELSE 1
        body == IF StartsWith(t, "-") \/ StartsWith(t, "+") THEN Tail(t) ELSE t
    IN  IF IsIntBody(body)
        THEN [ok |-> TRUE, value |-> sgn * DigitsToNat(SelectSeq(body, IsDigit))]
        ELSE [ok |-> FALSE, value |-> 0]

(***************************************************************************)
(* Python dict helpers.                                                    *)
(***************************************************************************)
\* d[k] = v on a dict d (the key is added when missing).
Put(d, k, v) == [x \in DOMAIN d \cup {k} |-> IF x = k THEN v ELSE d[x]]

Has(d, k) == k \in DOMAIN d

RECURSIVE SumSeq(_)
SumSeq(s) == IF s = <<>> THEN 0 ELSE s[1] + SumSeq(Tail(s))

InSeq(x, s) == \E i \in 1..Len(s) : s[i] = x

(***************************************************************************)
(* DiceRoller                                                              *)
(***************************************************************************)
\* The values of self.dice_types; f'd{sides}' is a key iff sides is one.
dice_types == {4, 6, 8, 10, 12, 20, 100}

\* The ValueError messages, as [kind, text]: text is the fragment the
\* f-string embeds.
ValueError(kind, text) == [kind |-> kind, text |-> text]

ParseOk(count, sides, modifier) ==
    [ok |-> TRUE, count |-> count, sides |-> sides, modifier |-> modifier,
     error |-> ValueError("none", <<>>)]

ParseRaise(e) ==
    [ok |-> FALSE, count |-> 0, sides |-> 0, modifier |-> 0, error |-> e]

NotSpace(c) == c # " "

\* ParseModifier with the bug of reading '-M' as '+M'.
ParseModifierSignLost(count, sides, remaining) ==
    IF remaining = <<>> THEN ParseOk(count, sides, 0)
    ELSE IF StartsWith(remaining, "+") \/ StartsWith(remaining, "-") THEN
        LET m == PyInt(Tail(remaining))
        IN  IF m.ok THEN ParseOk(count, sides, m.value)
            ELSE ParseRaise(ValueError("invalid_literal_for_int", Tail(remaining)))
    ELSE ParseRaise(ValueError("invalid_modifier_format", remaining))

\* The modifier part of _parse_dice_string (lines 76-88).
ParseModifier(count, sides, remaining) ==
    IF remaining = <<>> THEN ParseOk(count, sides, 0)
    ELSE IF StartsWith(remaining, "+") THEN
        LET m == PyInt(Tail(remaining))
        IN  IF m.ok THEN ParseOk(count, sides, m.value)
            ELSE ParseRaise(ValueError("invalid_literal_for_int", Tail(remaining)))
    ELSE IF StartsWith(remaining, "-") THEN
        LET m == PyInt(Tail(remaining))
        IN  IF m.ok THEN ParseOk(count, sides, -m.value)
            ELSE ParseRaise(ValueError("invalid_literal_for_int", Tail(remaining)))
    ELSE ParseRaise(ValueError("invalid_modifier_format", remaining))

\* ParseSides with the bug of parsing the modifier before the die type is
\* checked.
ParseSidesModifierFirst(dice_string, count, remaining) ==
    LET k == DigitRun(remaining)
    IN  IF k = 0 THEN ParseRaise(ValueError("invalid_roll_format", dice_string))
        ELSE IF ~ParseModifier(count, DigitsToNat(SubSeq(remaining, 1, k)),
                               Drop(remaining, k)).ok
        THEN ParseModifier(count, DigitsToNat(SubSeq(remaining, 1, k)),
                           Drop(remaining, k))
        ELSE IF DigitsToNat(SubSeq(remaining, 1, k)) \notin dice_types
        THEN ParseRaise(ValueError("unsupported_die_type",
                 <<"d">> \o NatToStr(DigitsToNat(SubSeq(remaining, 1, k)))))
        ELSE ParseModifier(count, DigitsToNat(SubSeq(remaining, 1, k)),
                           Drop(remaining, k))

\* The sides part of _parse_dice_string (lines 66-78).
ParseSides(dice_string, count, remaining) ==
    LET k == DigitRun(remaining)
    IN  IF k = 0 THEN ParseRaise(ValueError("invalid_roll_format", dice_string))
        ELSE LET sides == DigitsToNat(SubSeq(remaining, 1, k))
             IN  IF sides \notin dice_types
                 THEN ParseRaise(ValueError("unsupported_die_type",
                                            <<"d">> \o NatToStr(sides)))
                 ELSE ParseModifier(count, sides, Drop(remaining, k))

\* _parse_dice_string without the replace(' ', '') of line 52.
_parse_dice_string_spaces_kept(dice_string) ==
    IF StartsWith(dice_string, "d")
    THEN ParseSides(dice_string, 1, Tail(dice_string))
    ELSE LET k == DigitRun(dice_string)
         IN  IF k = 0 \/ k = Len(dice_string) \/ dice_string[k + 1] # "d"
             THEN ParseRaise(ValueError("invalid_roll_format", dice_string))
             ELSE ParseSides(dice_string,
                             DigitsToNat(SubSeq(dice_string, 1, k)),
                             Drop(dice_string, k + 1))

_parse_dice_string(dice_string0) ==
    LET dice_string == SelectSeq(dice_string0, NotSpace)
    IN  IF StartsWith(dice_string, "d")
        THEN ParseSides(dice_string, 1, Tail(dice_string))
        ELSE LET k == DigitRun(dice_string)
             IN  IF k = 0 \/ k = Len(dice_string) \/ dice_string[k + 1] # "d"
                 THEN ParseRaise(ValueError("invalid_roll_format", dice_string))
                 ELSE ParseSides(dice_string,
                                 DigitsToNat(SubSeq(dice_string, 1, k)),
                                 Drop(dice_string, k + 1))

\* _check_critical with the bug of looking at the first die only.
_check_critical_first_die(rolls, sides) ==
    sides = 20 /\ Len(rolls) > 0 /\ rolls[1] = 20

_check_critical(rolls, sides) == sides = 20 /\ InSeq(20, rolls)

_check_fumble(rolls, sides) == sides = 20 /\ InSeq(1, rolls)

\* The values random.randint(a, b) can return.
randint(a, b) == a..b

\* RollOutcome with the bug of reporting the notation without its spaces in
\* the error outcome.
RollOutcomeStrippedInput(dice_string, p, rand) ==
    IF p.ok
    THEN LET rolls == [i \in 1..p.count |-> rand[i]]
         IN  [ret |-> [dice_string |-> dice_string,
                       count       |-> p.count,
                       sides       |-> p.sides,
                       modifier    |-> p.modifier,
                       rolls       |-> rolls,
                       total       |-> SumSeq(rolls) + p.modifier,
                       is_critical |-> _check_critical(rolls, p.sides),
                       is_fumble   |-> _check_fumble(rolls, p.sides)],
              used |-> p.count]
    ELSE [ret |-> [dice_string |-> SelectSeq(dice_string, NotSpace),
                   error       |-> p.error,
                   total       |-> 0],
          used |-> 0]

\* The dict roll_dice returns (lines 29-47), given what _parse_dice_string
\* returned or raised (p) and the values the successive random.randint calls
\* return (rand).  ret is the returned dict, used the number of
\* random.randint calls made.
RollOutcome(dice_string, p, rand) ==
    IF p.ok
    THEN LET rolls == [i \in 1..p.count |-> rand[i]]
         IN  [ret |-> [dice_string |-> dice_string,
                       count       |-> p.count,
                       sides       |-> p.sides,
                       modifier    |-> p.modifier,
                       rolls       |-> rolls,
                       total       |-> SumSeq(rolls) + p.modifier,
                       is_critical |-> _check_critical(rolls, p.sides),
                       is_fumble   |-> _check_fumble(rolls, p.sides)],
              used |-> p.count]
    ELSE [ret |-> [dice_string |-> dice_string,
                   error       |-> p.error,
                   total       |-> 0],
          used |-> 0]

roll_dice(dice_string, rand) ==
    RollOutcome(dice_string, _parse_dice_string(dice_string), rand)

d20 == <<"d", "2", "0">>

\* AddBonus with the bug of recording the bonus without adding it.
AddBonusNotAdded(r, key, bonus) ==
    [ret |-> Put(r.ret, key, bonus), used |-> r.used]

\* result['total'] += bonus; result[key] = bonus
AddBonus(r, key, bonus) ==
    [ret  |-> Put(Put(r.ret, "total", r.ret.total + bonus), key, bonus),
     used |-> r.used]

\* KeepRoll with the two comparisons exchanged.
KeepRollSwapped(advantage, disadvantage, roll1, roll2) ==
    IF advantage THEN
        [ret  |-> Put(IF roll1.ret.total < roll2.ret.total
                      THEN roll1.ret ELSE roll2.ret, "advantage", TRUE),
         used |-> roll1.used + roll2.used]
    ELSE IF disadvantage THEN
        [ret  |-> Put(IF roll1.ret.total > roll2.ret.total
                      THEN roll1.ret ELSE roll2.ret, "disadvantage", TRUE),
         used |-> roll1.used + roll2.used]
    ELSE roll1

\* The branches of roll_ability_check (lines 104-121) once both rolls are
\* made; the plain branch makes the first roll only.
KeepRoll(advantage, disadvantage, roll1, roll2) ==
    IF advantage THEN
        [ret  |-> Put(IF roll1.ret.total > roll2.ret.total
                      THEN roll1.ret ELSE roll2.ret, "advantage", TRUE),
         used |-> roll1.used + roll2.used]
    ELSE IF disadvantage THEN
        [ret  |-> Put(IF roll1.ret.total < roll2.ret.total
                      THEN roll1.ret ELSE roll2.ret, "disadvantage", TRUE),
         used |-> roll1.used + roll2.used]
    ELSE roll1

\* The second roll reads the random values the first one left.
RollTwice(advantage, disadvantage, roll1, rand) ==
    KeepRoll(advantage, disadvantage, roll1, roll_dice(d20, Drop(rand, roll1.used)))

\* roll_ability_check without the cancellation of lines 100-102.
roll_ability_check_no_cancel(ability_modifier, advantage, disadvantage, rand) ==
    AddBonus(RollTwice(advantage, disadvantage, roll_dice(d20, rand), rand),
             "ability_modifier", ability_modifier)

roll_ability_check(ability_modifier, advantage, disadvantage, rand) ==
    AddBonus(RollTwice(advantage /\ ~(advantage /\ disadvantage),
                       disadvantage /\ ~(advantage /\ disadvantage),
                       roll_dice(d20, rand), rand),
             "ability_modifier", ability_modifier)

roll_attack(attack_bonus, rand) ==
    AddBonus(roll_dice(d20, rand), "attack_bonus", attack_bonus)

roll_damage(damage_dice, damage_bonus, rand) ==
    AddBonus(roll_dice(damage_dice, rand), "damage_bonus", damage_bonus)

roll_initiative(dex_modifier, rand) ==
    AddBonus(roll_dice(d20, rand), "dex_modifier", dex_modifier)

(***************************************************************************)
(* The calls made on the DiceRoller.                                       *)
(***************************************************************************)
CountTokens == {<<>>, <<"0", "2">>} \cup {NatToStr(n) : n \in 0..MaxCount}

Markers == {<<"d">>, <<"D">>, <<>>}

UnsupportedSides == {0, 1, 7, 21}

SideTokens ==
    {<<>>, <<"0", "6">>} \cup {NatToStr(s) : s \in dice_types \cup UnsupportedSides}

SignedTails == {<<sg>> \o NatToStr(m) : sg \in {"+", "-"}, m \in 0..MaxMod}

OddTails ==
    { <<"+">>, <<"-">>, <<"x">>, <<"+", "1", "2">>, <<"-", "0", "3">>,
      <<"+", "-", "3">>, <<"-", "-", "3">>, <<"+", "+", "3">>, <<"-", "+", "3">>,
      <<"+", "3", "a">>, <<"+", "\t", "3">>, <<"+", "1", "_", "0">>,
      <<"+", "_", "1">>, <<"\t">> }

Tails == {<<>>} \cup SignedTails \cup OddTails

Notations ==
    {c \o m \o s \o t : c \in CountTokens, m \in Markers, s \in SideTokens, t \in Tails}

\* s with the character c inserted after its first i characters.
Insert(s, i, c) == SubSeq(s, 1, i) \o <<c>> \o Drop(s, i)

SpacedBases ==
    { <<"2", "d", "4", "+", "1">>, <<"d", "2", "0">>, <<"d", "6", "-", "2">>,
      <<"1", "d", "1", "0", "0">>, <<"d", "7">> }

Spaced ==
    UNION { {Insert(s, i, c) : i \in 0..Len(s), c \in Whitespace} : s \in SpacedBases }
    \cup {Insert(Insert(s, Len(s), " "), 0, " ") : s \in SpacedBases}
    \cup {<<"2", "d", "6", " ", "+", " ", "3">>}

JunkStrings == UNION { [1..n -> Alphabet] : n \in 0..MaxJunkLen }

DiceStrings == Notations \cup Spaced \cup JunkStrings

Bonuses == (-MaxBonus)..MaxBonus

Call(op, dice_string, bonus, advantage, disadvantage) ==
    [op |-> op, dice_string |-> dice_string, bonus |-> bonus,
     advantage |-> advantage, disadvantage |-> disadvantage]

\* The calls of the public methods, with their arguments.
IsCall(c) ==
    \/ \E s \in DiceStrings : c = Call("roll_dice", s, 0, FALSE, FALSE)
    \/ \E s \in DiceStrings, b \in Bonuses : c = Call("roll_damage", s, b, FALSE, FALSE)
    \/ \E b \in Bonuses, a \in BOOLEAN, d \in BOOLEAN :
           c = Call("roll_ability_check", d20, b, a, d)
    \/ \E b \in Bonuses : c = Call("roll_attack", d20, b, FALSE, FALSE)
    \/ \E b \in Bonuses : c = Call("roll_initiative", d20, b, FALSE, FALSE)

NoResult == [pending |-> TRUE]

\* sides^count <= budget, computed without building the power.
RECURSIVE OutcomesWithin(_, _, _)
OutcomesWithin(count, sides, budget) ==
    IF count = 0 THEN budget >= 1
    ELSE sides <= budget /\ OutcomesWithin(count - 1, sides, budget \div sides)

\* The sequences of values the random.randint(1, sides) calls of one
\* roll_dice(dice_string) can return.
RandomDraws(dice_string) ==
    LET p == _parse_dice_string(dice_string)
    IN  IF p.ok THEN [1..p.count -> randint(1, p.sides)] ELSE {<<>>}

Rollable(dice_string) ==
    LET p == _parse_dice_string(dice_string)
    IN  p.ok => OutcomesWithin(p.count, p.sides, MaxOutcomes)

\* Two successive d20 rolls' worth of random values.
TwoD20Draws == {r1 \o r2 : r1 \in RandomDraws(d20), r2 \in RandomDraws(d20)}

Return(r, rand) ==
    /\ pc' = "done"
    /\ result' = r.ret
    /\ drawn' = SubSeq(rand, 1, r.used)
    /\ UNCHANGED <<call, partyVars, appVars>>

RollDice ==
    /\ pc = "call" /\ call.op = "roll_dice"
    /\ Rollable(call.dice_string)
    /\ \E rand \in RandomDraws(call.dice_string) :
           Return(roll_dice(call.dice_string, rand), rand)

RollDamage ==
    /\ pc = "call" /\ call.op = "roll_damage"
    /\ Rollable(call.dice_string)
    /\ \E rand \in RandomDraws(call.dice_string) :
           Return(roll_damage(call.dice_string, call.bonus, rand), rand)

RollAbilityCheck ==
    /\ pc = "call" /\ call.op = "roll_ability_check"
    /\ \E rand \in TwoD20Draws :
           Return(roll_ability_check(call.bonus, call.advantage,
                                     call.disadvantage, rand), rand)

RollAttack ==
    /\ pc = "call" /\ call.op = "roll_attack"
    /\ \E rand \in RandomDraws(d20) : Return(roll_attack(call.bonus, rand), rand)

RollInitiative ==
    /\ pc = "call" /\ call.op = "roll_initiative"
    /\ \E rand \in RandomDraws(d20) : Return(roll_initiative(call.bonus, rand), rand)

\* No caller, no shared object, no session and no window: the parts of the
\* program a specification does not run.
FormatIdle == formatted = <<>>

ConcIdle == callers = <<>> /\ exclusive = TRUE

AliasIdle == heap = <<>> /\ payloads = <<>> /\ lists = <<>>

MasterIdle ==
    /\ app = "none" /\ master_pc = "none"
    /\ party_state_file = [exists |-> FALSE]
    /\ party_store = [scenarios |-> <<>>]
    /\ current_scenario = [None |-> TRUE]
    /\ party_state = [None |-> TRUE]
    /\ party_size = 0

GuiIdle ==
    /\ send_button = "normal" /\ challenge_button = "normal"
    /\ challenge_submit_button = "normal" /\ challenge_cancel_button = "normal"
    /\ challenge_frame = "forgotten"
    /\ active_dice_challenge = [None |-> TRUE]
    /\ conversation_history = <<>> /\ workers = <<>> /\ after_queue = <<>>

PartyIdle ==
    /\ _members = <<>> /\ coin = 0 /\ rations = 0 /\ party_tags = <<>>
    /\ last = [op |-> "none"]

Init ==
    /\ pc = "call"
    /\ IsCall(call)
    /\ drawn = <<>>
    /\ result = NoResult
    /\ PartyIdle
    /\ FormatIdle /\ ConcIdle /\ AliasIdle /\ MasterIdle /\ GuiIdle

Next == RollDice \/ RollDamage \/ RollAbilityCheck \/ RollAttack \/ RollInitiative

Spec == Init /\ [][Next]_vars

(***************************************************************************)
(* PartyMember                                                             *)
(*                                                                         *)
(* A number is [type, value] so that isinstance(x, int) can fail; a dict   *)
(* with insertion order (stats) is a sequence of [key, value] items.       *)
(***************************************************************************)
STAT_KEYS == <<"str", "dex", "int", "wit", "charm">>
MIN_STAT == -1
MAX_STAT == 3
MIN_HP == 8
MAX_HP == 14
MAX_MEMBERS == 3

IntVal(n) == [type |-> "int", value |-> n]

FloatVal(n) == [type |-> "float", value |-> n]

isinstance_int(x) == x.type = "int"

\* set(stats.keys())
Keys(stats) == {stats[i].key : i \in 1..Len(stats)}

SeqToSet(s) == {s[i] : i \in 1..Len(s)}

\* not s, for a str s
Not(s) == s = ""

\* any(not item for item in items)
AnyEmpty(items) == \E i \in 1..Len(items) : Not(items[i])

NoError == [raised |-> FALSE, message |-> "", key |-> ""]

\* raise PartyValidationError(message); key is the value an f-string embeds
\* at {key}.
PartyValidationError(message, key) ==
    [raised |-> TRUE, message |-> message, key |-> key]

\* What the body of the loop over stats.items() raises for one item.
StatError(item) ==
    IF ~isinstance_int(item.value)
    THEN PartyValidationError("Stat '{key}' must be an integer.", item.key)
    ELSE IF item.value.value < MIN_STAT \/ item.value.value > MAX_STAT
    THEN PartyValidationError("Stat '{key}' must be between -1 and 3.", item.key)
    ELSE NoError

\* The loop over stats.items(): the first item, in the dict's order, that
\* raises.
StatsLoop(stats) ==
    IF \A i \in 1..Len(stats) : ~StatError(stats[i]).raised
    THEN NoError
    ELSE StatError(stats[CHOOSE i \in 1..Len(stats) :
                             /\ StatError(stats[i]).raised
                             /\ \A j \in 1..(i - 1) : ~StatError(stats[j]).raised])

\* validate with the upper limit of hp excluded (>= for >).
validate_hp_exclusive(self) ==
    IF Not(self.id) THEN PartyValidationError("Member id must be provided.", "")
    ELSE IF Not(self.name)
    THEN PartyValidationError("Member name must be provided.", "")
    ELSE IF Not(self.role)
    THEN PartyValidationError("Member role must be provided.", "")
    ELSE IF Not(self.concept)
    THEN PartyValidationError("Member concept must be provided.", "")
    ELSE IF Keys(self.stats) # SeqToSet(STAT_KEYS)
    THEN PartyValidationError(
             "Stats must include exactly the keys: str, dex, int, wit, charm", "")
    ELSE IF StatsLoop(self.stats).raised THEN StatsLoop(self.stats)
    ELSE IF Len(self.traits) # 2
    THEN PartyValidationError("Member must have exactly 2 traits.", "")
    ELSE IF Len(self.loadout) # 2
    THEN PartyValidationError("Member must have exactly 2 loadout items.", "")
    ELSE IF AnyEmpty(self.traits)
    THEN PartyValidationError("Trait descriptions cannot be empty.", "")
    ELSE IF AnyEmpty(self.loadout)
    THEN PartyValidationError("Loadout items cannot be empty.", "")
    ELSE IF ~isinstance_int(self.hp)
    THEN PartyValidationError("HP must be an integer.", "")
    ELSE IF self.hp.value < MIN_HP \/ self.hp.value >= MAX_HP
    THEN PartyValidationError("HP must be between 8 and 14.", "")
    ELSE IF ~(0 < Len(self.tags) /\ Len(self.tags) <= 2)
    THEN PartyValidationError("Member must have 1 or 2 tags.", "")
    ELSE IF AnyEmpty(self.tags)
    THEN PartyValidationError("Tags cannot be empty strings.", "")
    ELSE NoError

\* validate with the checks on tags made before the checks on hp.
validate_tags_before_hp(self) ==
    IF Not(self.id) THEN PartyValidationError("Member id must be provided.", "")
    ELSE IF Not(self.name)
    THEN PartyValidationError("Member name must be provided.", "")
    ELSE IF Not(self.role)
    THEN PartyValidationError("Member role must be provided.", "")
    ELSE IF Not(self.concept)
    THEN PartyValidationError("Member concept must be provided.", "")
    ELSE IF Keys(self.stats) # SeqToSet(STAT_KEYS)
    THEN PartyValidationError(
             "Stats must include exactly the keys: str, dex, int, wit, charm", "")
    ELSE IF StatsLoop(self.stats).raised THEN StatsLoop(self.stats)
    ELSE IF Len(self.traits) # 2
    THEN PartyValidationError("Member must have exactly 2 traits.", "")
    ELSE IF Len(self.loadout) # 2
    THEN PartyValidationError("Member must have exactly 2 loadout items.", "")
    ELSE IF AnyEmpty(self.traits)
    THEN PartyValidationError("Trait descriptions cannot be empty.", "")
    ELSE IF AnyEmpty(self.loadout)
    THEN PartyValidationError("Loadout items cannot be empty.", "")
    ELSE IF ~(0 < Len(self.tags) /\ Len(self.tags) <= 2)
    THEN PartyValidationError("Member must have 1 or 2 tags.", "")
    ELSE IF AnyEmpty(self.tags)
    THEN PartyValidationError("Tags cannot be empty strings.", "")
    ELSE IF ~isinstance_int(self.hp)
    THEN PartyValidationError("HP must be an integer.", "")
    ELSE IF self.hp.value < MIN_HP \/ self.hp.value > MAX_HP
    THEN PartyValidationError("HP must be between 8 and 14.", "")
    ELSE NoError

\* PartyMember.validate: NoError when it returns, the error it raises
\* otherwise.
validate(self) ==
    IF Not(self.id) THEN PartyValidationError("Member id must be provided.", "")
    ELSE IF Not(self.name)
    THEN PartyValidationError("Member name must be provided.", "")
    ELSE IF Not(self.role)
    THEN PartyValidationError("Member role must be provided.", "")
    ELSE IF Not(self.concept)
    THEN PartyValidationError("Member concept must be provided.", "")
    ELSE IF Keys(self.stats) # SeqToSet(STAT_KEYS)
    THEN PartyValidationError(
             "Stats must include exactly the keys: str, dex, int, wit, charm", "")
    ELSE IF StatsLoop(self.stats).raised THEN StatsLoop(self.stats)
    ELSE IF Len(self.traits) # 2
    THEN PartyValidationError("Member must have exactly 2 traits.", "")
    ELSE IF Len(self.loadout) # 2
    THEN PartyValidationError("Member must have exactly 2 loadout items.", "")
    ELSE IF AnyEmpty(self.traits)
    THEN PartyValidationError("Trait descriptions cannot be empty.", "")
    ELSE IF AnyEmpty(self.loadout)
    THEN PartyValidationError("Loadout items cannot be empty.", "")
    ELSE IF ~isinstance_int(self.hp)
    THEN PartyValidationError("HP must be an integer.", "")
    ELSE IF self.hp.value < MIN_HP \/ self.hp.value > MAX_HP
    THEN PartyValidationError("HP must be between 8 and 14.", "")
    ELSE IF ~(0 < Len(self.tags) /\ Len(self.tags) <= 2)
    THEN PartyValidationError("Member must have 1 or 2 tags.", "")
    ELSE IF AnyEmpty(self.tags)
    THEN PartyValidationError("Tags cannot be empty strings.", "")
    ELSE NoError

(***************************************************************************)
(* PartyBuilder                                                            *)
(***************************************************************************)
\* [tag for tag in (party_tags or []) if tag][:3]
NotEmpty(tag) == ~Not(tag)

FirstThree(s) == SubSeq(s, 1, IF Len(s) < 3 THEN Len(s) ELSE 3)

InitPartyTags(party_tags_arg) == FirstThree(SelectSeq(party_tags_arg, NotEmpty))

\* IdExists that finds no member, whatever the ids.
IdExistsNever(self_members, member) == FALSE

\* any(existing.id == member.id for existing in self._members)
IdExists(self_members, member) ==
    \E i \in 1..Len(self_members) : self_members[i].id = member.id

\* AddMemberError with the size test off by one (> for >=).
AddMemberErrorOffByOne(self_members, member) ==
    IF Len(self_members) > MAX_MEMBERS
    THEN PartyValidationError("Party already has the maximum number of members.", "")
    ELSE IF IdExists(self_members, member)
    THEN PartyValidationError("Member with id '{member.id}' already exists.", member.id)
    ELSE validate(member)

\* AddMemberError with the duplicate-id test made before the size test.
AddMemberErrorDuplicateFirst(self_members, member) ==
    IF IdExists(self_members, member)
    THEN PartyValidationError("Member with id '{member.id}' already exists.", member.id)
    ELSE IF Len(self_members) >= MAX_MEMBERS
    THEN PartyValidationError("Party already has the maximum number of members.", "")
    ELSE validate(member)

\* What add_member raises (NoError: it returns).
AddMemberError(self_members, member) ==
    IF Len(self_members) >= MAX_MEMBERS
    THEN PartyValidationError("Party already has the maximum number of members.", "")
    ELSE IF IdExists(self_members, member)
    THEN PartyValidationError("Member with id '{member.id}' already exists.", member.id)
    ELSE validate(member)

\* AddMemberEffect with the append made before member.validate() is called.
AddMemberEffectAppendFirst(self_members, member, error) ==
    IF Len(self_members) >= MAX_MEMBERS \/ IdExists(self_members, member)
    THEN self_members
    ELSE Append(self_members, member)

\* self._members after add_member(member), given what it raised.
AddMemberEffect(self_members, member, error) ==
    IF error.raised THEN self_members ELSE Append(self_members, member)

is_full(self_members) == Len(self_members) >= MAX_MEMBERS

\* stats[key]
Lookup(stats, key) ==
    stats[CHOOSE i \in 1..Len(stats) : stats[i].key = key].value

\* _determine_key_stat with the priority not negated: the last of the stats
\* tied for the highest value wins.
_determine_key_stat_last_tied(stats) ==
    STAT_KEYS[CHOOSE i \in 1..Len(STAT_KEYS) :
        \A j \in 1..Len(STAT_KEYS) : j # i =>
            \/ Lookup(stats, STAT_KEYS[i]).value > Lookup(stats, STAT_KEYS[j]).value
            \/ /\ Lookup(stats, STAT_KEYS[i]).value = Lookup(stats, STAT_KEYS[j]).value
               /\ i > j]

\* max(STAT_KEYS, key=lambda key: (stats[key], -priority[key])), priority
\* being the index in STAT_KEYS: tuples compare lexicographically.
_determine_key_stat(stats) ==
    STAT_KEYS[CHOOSE i \in 1..Len(STAT_KEYS) :
        \A j \in 1..Len(STAT_KEYS) : j # i =>
            \/ Lookup(stats, STAT_KEYS[i]).value > Lookup(stats, STAT_KEYS[j]).value
            \/ /\ Lookup(stats, STAT_KEYS[i]).value = Lookup(stats, STAT_KEYS[j]).value
               /\ -i > -j]

\* key_stat.upper() on the keys of STAT_KEYS
Upper(key) ==
    CASE key = "str" -> "STR" [] key = "dex" -> "DEX" [] key = "int" -> "INT"
      [] key = "wit" -> "WIT" [] key = "charm" -> "CHARM"

\* f"{n:+d}"
SignedStr(n) == IF n >= 0 THEN <<"+">> \o NatToStr(n) ELSE <<"-">> \o NatToStr(-n)

\* str(n)
IntToStr(n) == IF n >= 0 THEN NatToStr(n) ELSE <<"-">> \o NatToStr(-n)

\* sep.join(items), as the sequence of its pieces
RECURSIVE Join(_, _)
Join(items, sep) ==
    IF Len(items) = 0 THEN <<>>
    ELSE IF Len(items) = 1 THEN <<items[1]>>
    ELSE <<items[1], sep>> \o Join(Tail(items), sep)

\* The compact line, as the sequence of the pieces the f-string puts
\* together (the label before the traits is a Russian word in the source).
_member_to_compact(member) ==
    <<member.name, "-", member.role, " ", Upper(_determine_key_stat(member.stats))>>
    \o SignedStr(Lookup(member.stats, _determine_key_stat(member.stats)).value)
    \o <<" HP">> \o IntToStr(member.hp.value)
    \o <<" - ">> \o Join(member.loadout, ", ")
    \o <<"; traits: ">> \o Join(member.traits, ", ")

_member_to_payload(member) ==
    [id |-> member.id, name |-> member.name, role |-> member.role,
     concept |-> member.concept, stats |-> member.stats, traits |-> member.traits,
     loadout |-> member.loadout, hp |-> member.hp, tags |-> member.tags]

\* build_payload with the compact lines in the reverse order.
build_payload_compact_reversed(self_members, self_coin, self_rations, self_party_tags) ==
    [party |->
        [max_size   |-> MAX_MEMBERS,
         members    |-> [i \in 1..Len(self_members) |->
                            _member_to_payload(self_members[i])],
         resources  |-> [coin |-> self_coin, rations |-> self_rations],
         party_tags |-> self_party_tags],
     state_delta |->
        [flags         |-> [set |-> <<"party_initialized">>],
         inventory_add |-> <<[owner |-> "party", item_id |-> "basic_kit"]>>],
     party_compact |-> [i \in 1..Len(self_members) |->
                           _member_to_compact(
                               self_members[Len(self_members) + 1 - i])]]

\* BuildPayloadEffect with the members popped off the list as they are
\* converted.
BuildPayloadEffectDrained(self_members) == <<>>

\* self._members after build_payload: the two comprehensions of lines
\* 120-121 iterate over the list and assign nothing.
BuildPayloadEffect(self_members) == self_members

\* build_payload with the marker emitted only for a party that has members.
build_payload_marker_if_members(self_members, self_coin, self_rations, self_party_tags) ==
    [party |->
        [max_size   |-> MAX_MEMBERS,
         members    |-> [i \in 1..Len(self_members) |->
                            _member_to_payload(self_members[i])],
         resources  |-> [coin |-> self_coin, rations |-> self_rations],
         party_tags |-> self_party_tags],
     state_delta |->
        [flags         |-> [set |-> IF self_members = <<>> THEN <<>>
                                    ELSE <<"party_initialized">>],
         inventory_add |-> <<[owner |-> "party", item_id |-> "basic_kit"]>>],
     party_compact |-> [i \in 1..Len(self_members) |->
                           _member_to_compact(self_members[i])]]

build_payload(self_members, self_coin, self_rations, self_party_tags) ==
    [party |->
        [max_size   |-> MAX_MEMBERS,
         members    |-> [i \in 1..Len(self_members) |->
                            _member_to_payload(self_members[i])],
         resources  |-> [coin |-> self_coin, rations |-> self_rations],
         party_tags |-> self_party_tags],
     state_delta |->
        [flags         |-> [set |-> <<"party_initialized">>],
         inventory_add |-> <<[owner |-> "party", item_id |-> "basic_kit"]>>],
     party_compact |-> [i \in 1..Len(self_members) |->
                           _member_to_compact(self_members[i])]]

(***************************************************************************)
(* The members passed to add_member and the constructor's arguments.       *)
(***************************************************************************)
Ids == {"a", "b", "c", "d"}

Stats(str, dex, int, wit, charm) ==
    << [key |-> "str", value |-> str], [key |-> "dex", value |-> dex],
       [key |-> "int", value |-> int], [key |-> "wit", value |-> wit],
       [key |-> "charm", value |-> charm] >>

Member(id) ==
    [id |-> id, name |-> "Ann", role |-> "scout", concept |-> "runaway",
     stats |-> Stats(IntVal(2), IntVal(2), IntVal(0), IntVal(0), IntVal(0)),
     traits |-> <<"brave", "curious">>, loadout |-> <<"rope", "lamp">>,
     hp |-> IntVal(10), tags |-> <<"adventure">>]

\* A second valid member, at the limits of the ranges.
Limits(id) ==
    [id |-> id, name |-> "Bo", role |-> "sage", concept |-> "exile",
     stats |-> Stats(IntVal(-1), IntVal(0), IntVal(3), IntVal(3), IntVal(1)),
     traits |-> <<"calm", "wry">>, loadout |-> <<"book", "ink">>,
     hp |-> IntVal(14), tags |-> <<"lore", "city">>]

With(m, field, v) == [x \in DOMAIN m |-> IF x = field THEN v ELSE m[x]]

\* Members that break one rule of the template.
Defects(m) ==
    { With(m, "id", ""), With(m, "name", ""), With(m, "role", ""),
      With(m, "concept", ""),
      With(m, "stats", SubSeq(m.stats, 1, 4)),
      With(m, "stats", m.stats \o <<[key |-> "luck", value |-> IntVal(1)]>>),
      With(m, "stats", Stats(IntVal(4), IntVal(0), IntVal(0), IntVal(0), IntVal(0))),
      With(m, "stats", Stats(IntVal(0), IntVal(-2), IntVal(0), IntVal(0), IntVal(0))),
      With(m, "stats", Stats(IntVal(0), IntVal(0), FloatVal(2), IntVal(0), IntVal(0))),
      With(m, "stats", Stats(IntVal(0), IntVal(0), IntVal(0), IntVal(5), FloatVal(1))),
      With(m, "traits", <<"brave">>), With(m, "traits", <<"brave", "curious", "calm">>),
      With(m, "traits", <<"brave", "">>),
      With(m, "loadout", <<"rope">>), With(m, "loadout", <<"", "lamp">>),
      With(m, "hp", IntVal(7)), With(m, "hp", IntVal(15)), With(m, "hp", FloatVal(10)),
      With(m, "tags", <<>>), With(m, "tags", <<"a", "b", "c">>),
      With(m, "tags", <<"adventure", "">>) }

\* Members that break two rules.
TwoDefects(m) ==
    { With(With(m, "traits", <<"", "curious">>), "loadout", <<"rope">>),
      With(With(m, "stats", SubSeq(m.stats, 2, 5)), "hp", IntVal(20)),
      With(With(m, "name", ""), "tags", <<>>),
      With(With(m, "hp", IntVal(0)), "tags", <<"">>) }

Members ==
    {Member(id) : id \in Ids} \cup {Limits("a"), With(Limits("b"), "hp", IntVal(8))}
    \cup Defects(Member("d")) \cup TwoDefects(Member("d"))
    \cup {With(Member("a"), "hp", IntVal(15)), With(Member("b"), "name", "")}

\* The constructor's arguments (party_tags None is as the empty list:
\* party_tags or []).
InitArgs ==
    { [coin |-> 0,  rations |-> 0,  party_tags |-> <<>>],
      [coin |-> 10, rations |-> 3,  party_tags |-> <<"adventure">>],
      [coin |-> -1, rations |-> 2,  party_tags |-> <<"", "grim", "">>],
      [coin |-> 5,  rations |-> -1, party_tags |-> <<"a", "", "b", "c", "d">>] }

None == [None |-> TRUE]

Last(op, member, error, returned) ==
    [op |-> op, member |-> member, error |-> error, returned |-> returned]

(***************************************************************************)
(* The PartyBuilder operations.                                            *)
(***************************************************************************)
DiceIdle ==
    /\ pc = "done" /\ call = Call("none", <<>>, 0, FALSE, FALSE)
    /\ drawn = <<>> /\ result = NoResult
    /\ FormatIdle

\* PartyBuilder(coin, rations, party_tags)
PartyInit ==
    /\ \E args \in InitArgs :
           /\ _members = <<>>
           /\ coin = args.coin
           /\ rations = args.rations
           /\ party_tags = InitPartyTags(args.party_tags)
    /\ last = Last("__init__", None, NoError, None)
    /\ DiceIdle
    /\ ConcIdle /\ AliasIdle /\ MasterIdle /\ GuiIdle

AddMember ==
    \E member \in Members :
        /\ _members' = AddMemberEffect(_members, member,
                                       AddMemberError(_members, member))
        /\ last' = Last("add_member", member, AddMemberError(_members, member), None)
        /\ UNCHANGED <<coin, rations, party_tags, diceVars, appVars>>

Clear ==
    /\ _members' = <<>>
    /\ last' = Last("clear", None, NoError, None)
    /\ UNCHANGED <<coin, rations, party_tags, diceVars, appVars>>

IsFull ==
    /\ last' = Last("is_full", None, NoError, is_full(_members))
    /\ UNCHANGED <<_members, coin, rations, party_tags, diceVars, appVars>>

\* The members property returns list(self._members).
MembersProperty ==
    /\ last' = Last("members", None, NoError, _members)
    /\ UNCHANGED <<_members, coin, rations, party_tags, diceVars, appVars>>

BuildPayload ==
    /\ last' = Last("build_payload", None, NoError,
                    build_payload(_members, coin, rations, party_tags))
    /\ _members' = BuildPayloadEffect(_members)
    /\ UNCHANGED <<coin, rations, party_tags, diceVars, appVars>>

PartyNext == AddMember \/ Clear \/ IsFull \/ MembersProperty \/ BuildPayload

PartySpec == PartyInit /\ [][PartyNext]_vars

(***************************************************************************)
(* PartyMember.validate and the compact line, on one member at a time.     *)
(***************************************************************************)
\* Every stats dict with the five keys and int values in MIN_STAT..MAX_STAT.
AllStats ==
    { Stats(IntVal(a), IntVal(b), IntVal(c), IntVal(d), IntVal(e)) :
      a \in MIN_STAT..MAX_STAT, b \in MIN_STAT..MAX_STAT, c \in MIN_STAT..MAX_STAT,
      d \in MIN_STAT..MAX_STAT, e \in MIN_STAT..MAX_STAT }

\* A valid stats dict whose keys were inserted in another order than
\* STAT_KEYS.
OtherOrderStats ==
    << [key |-> "charm", value |-> IntVal(1)], [key |-> "wit", value |-> IntVal(3)],
       [key |-> "str", value |-> IntVal(0)], [key |-> "int", value |-> IntVal(3)],
       [key |-> "dex", value |-> IntVal(-1)] >>

\* The PartyMember objects constructed: those passed to add_member, the
\* members that break one or two rules of the template in every
\* combination, and a valid member with every valid stats dict.
Candidates ==
    Members
    \cup UNION {Defects(x) : x \in Defects(Limits("b"))}
    \cup {With(Member("a"), "stats", stats) : stats \in AllStats}
    \cup {With(Limits("c"), "stats", OtherOrderStats)}

\* PartyMember(...): the dataclass constructor checks nothing.
MemberInit ==
    /\ \E member \in Candidates : last = Last("PartyMember", member, NoError, None)
    /\ _members = <<>> /\ coin = 0 /\ rations = 0 /\ party_tags = <<>>
    /\ DiceIdle
    /\ ConcIdle /\ AliasIdle /\ MasterIdle /\ GuiIdle

\* member.validate(): last.member is the member after the call, last.error
\* what the call raised.
Validate ==
    /\ last.op = "PartyMember"
    /\ last' = Last("validate", last.member, validate(last.member), None)
    /\ UNCHANGED <<_members, coin, rations, party_tags, diceVars, appVars>>

\* _member_to_compact(member), called by build_payload on the members
\* add_member accepted.
MemberToCompact ==
    /\ last.op = "PartyMember"
    /\ ~validate(last.member).raised
    /\ last' = Last("_member_to_compact", last.member, NoError,
                    _member_to_compact(last.member))
    /\ UNCHANGED <<_members, coin, rations, party_tags, diceVars, appVars>>

MemberNext == Validate \/ MemberToCompact

MemberSpec == MemberInit /\ [][MemberNext]_vars

(***************************************************************************)
(* add_member called by several callers on one PartyBuilder.               *)
(*                                                                         *)
(* A caller runs add_member in three steps, between which another caller   *)
(* can run: the size test (lines 101-102), the duplicate-id test and       *)
(* member.validate() (lines 104-107), the append (line 108).  With         *)
(* exclusive access a caller starts only when no other caller is inside    *)
(* add_member.                                                             *)
(***************************************************************************)
Callers == {1, 2}

\* The members the callers add: the four valid ones and one that breaks a
\* rule.
ConcMembers == {Member(id) : id \in Ids} \cup {With(Member("a"), "hp", IntVal(15))}

Outside == [at |-> "outside", member |-> None]

Inside(at, member) == [at |-> at, member |-> member]

ConcInit ==
    /\ callers = [t \in Callers |-> Outside]
    /\ exclusive \in BOOLEAN
    /\ _members = <<>> /\ coin = 0 /\ rations = 0 /\ party_tags = <<>>
    /\ last = Last("__init__", None, NoError, None)
    /\ DiceIdle
    /\ AliasIdle /\ MasterIdle /\ GuiIdle

ConcFrame ==
    UNCHANGED <<exclusive, coin, rations, party_tags, diceVars, formatVars,
                aliasVars, masterVars, guiVars>>

\* add_member(member) is called and makes the size test.
CheckSize(t) ==
    /\ callers[t] = Outside
    /\ exclusive => \A u \in Callers : callers[u] = Outside
    /\ \E member \in ConcMembers :
           IF Len(_members) >= MAX_MEMBERS
           THEN /\ last' = Last("add_member", member,
                                PartyValidationError(
                                    "Party already has the maximum number of members.",
                                    ""), None)
                /\ UNCHANGED callers
           ELSE /\ callers' = [callers EXCEPT ![t] = Inside("size_tested", member)]
                /\ UNCHANGED last
    /\ UNCHANGED _members
    /\ ConcFrame

\* The duplicate-id test and member.validate().
CheckIdAndValidate(t) ==
    /\ callers[t].at = "size_tested"
    /\ LET member == callers[t].member
           error  == IF IdExists(_members, member)
                     THEN PartyValidationError(
                              "Member with id '{member.id}' already exists.", member.id)
                     ELSE validate(member)
       IN  IF error.raised
           THEN /\ last' = Last("add_member", member, error, None)
                /\ callers' = [callers EXCEPT ![t] = Outside]
           ELSE /\ callers' = [callers EXCEPT ![t] = Inside("validated", member)]
                /\ UNCHANGED last
    /\ UNCHANGED _members
    /\ ConcFrame

\* self._members.append(member)
AppendMember(t) ==
    /\ callers[t].at = "validated"
    /\ _members' = Append(_members, callers[t].member)
    /\ last' = Last("add_member", callers[t].member, NoError, None)
    /\ callers' = [callers EXCEPT ![t] = Outside]
    /\ ConcFrame

ConcNext ==
    \/ \E t \in Callers : CheckSize(t)
    \/ \E t \in Callers : CheckIdAndValidate(t)
    \/ \E t \in Callers : AppendMember(t)

ConcSpec == ConcInit /\ [][ConcNext]_vars

(***************************************************************************)
(* The objects a payload shares with the builder.                          *)
(*                                                                         *)
(* A Python list or dict that can be reached from more than one structure  *)
(* is an object of heap, and the structures hold [ref |-> n] for it: the   *)
(* list self.party_tags and, for every PartyMember, its stats dict and its *)
(* traits, loadout and tags lists.  The dicts and lists build_payload and  *)
(* the members property create are new objects with one holder, so they    *)
(* are written by value where they are held.                               *)
(***************************************************************************)
MaxAliasMembers == 1    \* members added to the builder
MaxPayloads     == 2    \* payloads built and kept by the caller

Ref(n) == [ref |-> n]

SharedFields == {"stats", "traits", "loadout", "tags"}

\* The PartyMember with its dict and lists replaced by what the references
\* point to.
Deref(h, member) ==
    [f \in DOMAIN member |->
        IF f \in SharedFields THEN h[member[f].ref] ELSE member[f]]

DerefAll(h, members) == [i \in 1..Len(members) |-> Deref(h, members[i])]

\* PartyMember(...): the caller's dict and lists become objects h[n+1..n+4].
NewMember(h, member) ==
    [f \in DOMAIN member |->
        CASE f = "stats"   -> Ref(Len(h) + 1)
          [] f = "traits"  -> Ref(Len(h) + 2)
          [] f = "loadout" -> Ref(Len(h) + 3)
          [] f = "tags"    -> Ref(Len(h) + 4)
          [] OTHER         -> member[f]]

NewMemberHeap(h, member) ==
    h \o <<member.stats, member.traits, member.loadout, member.tags>>

\* build_payload on the builder's objects: party_tags is self.party_tags
\* itself (line 128) and _member_to_payload copies the references of
\* member.stats, traits, loadout and tags (lines 148-152); the compact
\* lines are strs made from the values at the time of the call.
build_payload_shared(h, self_members, self_coin, self_rations, self_party_tags) ==
    [build_payload(DerefAll(h, self_members), self_coin, self_rations,
                   self_party_tags)
        EXCEPT !.party.members =
                   [i \in 1..Len(self_members) |-> _member_to_payload(self_members[i])]]

\* What a reader of the payload sees.
PayloadContent(h, payload) ==
    [payload EXCEPT !.party.party_tags = h[payload.party.party_tags.ref],
                    !.party.members = DerefAll(h, payload.party.members)]

\* What a reader of the builder sees.
BuilderContent(h, self_members, self_coin, self_rations, self_party_tags) ==
    [_members |-> DerefAll(h, self_members), coin |-> self_coin,
     rations |-> self_rations, party_tags |-> h[self_party_tags.ref]]

\* PartyBuilder(coin, rations, party_tags): the comprehension of line 92 makes
\* a new list.
AliasInit ==
    /\ \E args \in {a \in InitArgs : a.coin >= 0 /\ a.rations >= 0} :
           /\ heap = <<InitPartyTags(args.party_tags)>>
           /\ coin = args.coin
           /\ rations = args.rations
    /\ party_tags = Ref(1)
    /\ _members = <<>>
    /\ payloads = <<>>
    /\ lists = <<>>
    /\ last = Last("__init__", None, NoError, None)
    /\ DiceIdle
    /\ ConcIdle /\ MasterIdle /\ GuiIdle

AliasFrame ==
    UNCHANGED <<coin, rations, party_tags, diceVars, formatVars, concVars,
                masterVars, guiVars>>

\* add_member(PartyMember(...)) with a valid member
AliasAddMember ==
    /\ Len(_members) < MaxAliasMembers
    /\ \E member \in {Member("a"), Limits("b")} :
           /\ ~AddMemberError(DerefAll(heap, _members), member).raised
           /\ _members' = Append(_members, NewMember(heap, member))
           /\ heap' = NewMemberHeap(heap, member)
           /\ last' = Last("add_member", member, NoError, None)
    /\ UNCHANGED <<payloads, lists>>
    /\ AliasFrame

\* payload = builder.build_payload(), kept by the caller
AliasBuildPayload ==
    /\ Len(payloads) < MaxPayloads
    /\ payloads' = Append(payloads,
                          build_payload_shared(heap, _members, coin, rations,
                                               party_tags))
    /\ last' = Last("build_payload", None, NoError, Len(payloads) + 1)
    /\ UNCHANGED <<heap, _members, lists>>
    /\ AliasFrame

\* members = builder.members, kept by the caller: list(self._members)
AliasMembersProperty ==
    /\ lists = <<>>
    /\ lists' = <<_members>>
    /\ last' = Last("members", None, NoError, 1)
    /\ UNCHANGED <<heap, _members, payloads>>
    /\ AliasFrame

\* payload["initial_scene"] = scene_description
SetTopLevelKey(i) ==
    /\ ~Has(payloads[i], "initial_scene")
    /\ payloads' = [payloads EXCEPT ![i] = Put(@, "initial_scene", "a scene")]
    /\ last' = Last("payload[key] = value", None, NoError, i)
    /\ UNCHANGED <<heap, _members, lists>>
    /\ AliasFrame

\* payload["party"]["party_tags"].append("extra")
AppendPartyTag(i) ==
    /\ Len(heap[payloads[i].party.party_tags.ref]) < 3
    /\ heap' = [heap EXCEPT ![payloads[i].party.party_tags.ref] = Append(@, "extra")]
    /\ last' = Last("payload.party.party_tags.append", None, NoError, i)
    /\ UNCHANGED <<_members, payloads, lists>>
    /\ AliasFrame

\* payload["party"]["members"][j]["stats"]["str"] = 3, and
\* payload["party"]["members"][j][field][0] = "changed" for the three lists
ChangeMemberField(i, j, field) ==
    LET n       == payloads[i].party.members[j][field].ref
        changed == IF field = "stats"
                   THEN [heap[n] EXCEPT ![1] = [key |-> "str", value |-> IntVal(3)]]
                   ELSE [heap[n] EXCEPT ![1] = "changed"]
    IN  /\ heap[n] # changed
        /\ heap' = [heap EXCEPT ![n] = changed]
        /\ last' = Last("payload.party.members[j][field] changed", None, NoError, i)
        /\ UNCHANGED <<_members, payloads, lists>>
        /\ AliasFrame

\* members.clear() on the list the members property returned
ClearMembersList ==
    /\ lists # <<>> /\ lists[1] # <<>>
    /\ lists' = << <<>> >>
    /\ last' = Last("members.clear", None, NoError, 0)
    /\ UNCHANGED <<heap, _members, payloads>>
    /\ AliasFrame

AliasNext ==
    \/ AliasAddMember
    \/ AliasBuildPayload
    \/ AliasMembersProperty
    \/ ClearMembersList
    \/ \E i \in 1..Len(payloads) : SetTopLevelKey(i)
    \/ \E i \in 1..Len(payloads) : AppendPartyTag(i)
    \/ \E i \in 1..Len(payloads) :
           \E j \in 1..Len(payloads[i].party.members), field \in SharedFields :
               ChangeMemberField(i, j, field)

AliasSpec == AliasInit /\ [][AliasNext]_vars

(***************************************************************************)
(* The session: dnd_master.py (class DnDMaster, app "cli") and             *)
(* dnd_master_gui.py (class DnDMasterGUI, app "gui").                      *)
(*                                                                         *)
(* A value whose type the code tests with isinstance is [type, ...]; an    *)
(* Optional[str] is None or [str |-> s]; the dict inside Dict(items) is    *)
(* the function items.  What the user answers to a question is None (the   *)
(* dialog was cancelled), [str |-> text], or for a number IntVal(n) (the   *)
(* text is the integer n) and FloatVal(n) (the text is no integer).        *)
(***************************************************************************)
Dict(items) == [type |-> "dict", items |-> items]

List(elems) == [type |-> "list", elems |-> elems]

Str(s) == [str |-> s]

isinstance_dict(x) == Has(x, "type") /\ x.type = "dict"

\* d.get(key, default)
GetOr(d, key, default) == IF Has(d, key) THEN d[key] ELSE default

\* party_state.json: absent, not JSON, or the JSON value data.
NoFile == [exists |-> FALSE]

BadFile == [exists |-> TRUE, json |-> FALSE]

JsonFile(data) == [exists |-> TRUE, json |-> TRUE, data |-> data]

default_store == [scenarios |-> <<>>]

\* json.dump(store, f): the file then holds the store as a JSON object.
Dump(store) == JsonFile(Dict([scenarios |-> Dict(store.scenarios)]))

\* load_party_state without the migration of the single-party shape.
load_party_state_no_migration(file) ==
    IF file.exists /\ file.json /\ isinstance_dict(file.data)
       /\ Has(file.data.items, "scenarios")
       /\ isinstance_dict(file.data.items.scenarios)
    THEN [store |-> [scenarios |-> file.data.items.scenarios.items], file |-> file]
    ELSE [store |-> default_store,
          file |-> IF file.exists THEN file ELSE Dump(default_store)]

\* DnDMaster.load_party_state: the store it returns and the file it leaves.
load_party_state(file) ==
    IF file.exists
    THEN IF ~file.json THEN [store |-> default_store, file |-> file]
         ELSE IF /\ isinstance_dict(file.data)
                 /\ Has(file.data.items, "scenarios")
                 /\ isinstance_dict(file.data.items.scenarios)
         THEN [store |-> [scenarios |-> file.data.items.scenarios.items],
               file |-> file]
         ELSE IF isinstance_dict(file.data) /\ Has(file.data.items, "party")
         THEN [store |-> [scenarios |-> [k \in {"default"} |-> file.data]],
               file |-> file]
         ELSE [store |-> default_store, file |-> file]
    ELSE [store |-> default_store, file |-> Dump(default_store)]

\* DnDMasterGUI.load_party_state: migrated_store is [found, store].
load_party_state_gui(file) ==
    LET readable == file.exists /\ file.json
        migrated_store ==
            IF readable /\ isinstance_dict(file.data)
               /\ Has(file.data.items, "scenarios")
            THEN IF isinstance_dict(file.data.items.scenarios)
                 THEN [found |-> TRUE,
                       store |-> [scenarios |-> file.data.items.scenarios.items]]
                 ELSE [found |-> FALSE, store |-> default_store]
            ELSE IF readable /\ isinstance_dict(file.data)
                    /\ Has(file.data.items, "party")
            THEN [found |-> TRUE,
                  store |-> [scenarios |-> [k \in {"default"} |-> file.data]]]
            ELSE [found |-> FALSE, store |-> default_store]
    IN  [store |-> migrated_store.store,
         file  |-> IF ~file.exists \/ ~migrated_store.found
                   THEN Dump(migrated_store.store) ELSE file]

\* party_initialized that never finds the marker.
party_initialized_never(self_party_state) == FALSE

\* The property party_initialized of both classes.
party_initialized(self_party_state) ==
    IF ~isinstance_dict(self_party_state) THEN FALSE
    ELSE LET flags == GetOr(GetOr(GetOr(self_party_state.items,
                                        "state_delta", <<>>),
                                  "flags", <<>>),
                            "set", <<>>)
         IN  flags # <<>> /\ InSeq("party_initialized", flags)

\* list(scenarios.keys()): the stored files list their scenarios in this
\* order.
NameOrder == <<"default", "camp", "ruins", "dunes">>

scenario_names(scenarios) == SelectSeq(NameOrder, LAMBDA n : Has(scenarios, n))

NumberTexts == {"1", "2", "9"}

\* int(choice) for the digit strings typed
IntOfText(text) == CASE text = "1" -> 1 [] text = "2" -> 2 [] text = "9" -> 9

\* One pass of the while loop of _ensure_scenario_selected on the answer
\* choice: the name selected, or asked_again.
SelectScenario(is_gui, names, choice) ==
    LET typed == IF Has(choice, "str") THEN choice.str ELSE ""
        text  == IF typed = "" /\ is_gui /\ names = <<>> THEN "default" ELSE typed
    IN  IF text = "" THEN [asked_again |-> TRUE, name |-> ""]
        ELSE IF names # <<>> /\ text \in NumberTexts
        THEN IF 1 <= IntOfText(text) /\ IntOfText(text) <= Len(names)
             THEN [asked_again |-> FALSE, name |-> names[IntOfText(text)]]
             ELSE [asked_again |-> TRUE, name |-> ""]
        ELSE [asked_again |-> FALSE, name |-> text]

\* _prompt_int without the test of the maximum.
_prompt_int_no_maximum(answer, minimum, maximum) ==
    answer # None /\ isinstance_int(answer) /\ minimum <= answer.value

\* _prompt_int: TRUE when the answer is returned, FALSE when the question is
\* asked again (no answer, no integer, or an integer outside the range).
_prompt_int(answer, minimum, maximum) ==
    /\ answer # None
    /\ isinstance_int(answer)
    /\ minimum <= answer.value /\ answer.value <= maximum

\* _prompt_party_size of both classes (the GUI's askinteger refuses a number
\* outside 1..3 itself and returns None when cancelled).
_prompt_party_size(answer) == _prompt_int(answer, 1, MAX_MEMBERS)

\* _prompt_optional_int: None and the empty text give the default.
_prompt_optional_int(answer, minimum, default) ==
    IF answer = None THEN [asked_again |-> FALSE, value |-> default]
    ELSE IF isinstance_int(answer) /\ minimum <= answer.value
    THEN [asked_again |-> FALSE, value |-> answer.value]
    ELSE [asked_again |-> TRUE, value |-> default]

\* [item.strip() for item in re.split(...) if item.strip()]
NonEmptyItems(items) == SelectSeq(items, NotEmpty)

\* _prompt_fixed_list(expected_count=2) and _prompt_tags(minimum, maximum):
\* TRUE when the items are returned.
_prompt_fixed_list(items, expected_count) ==
    Len(NonEmptyItems(items)) = expected_count

_prompt_tags(items, minimum, maximum) ==
    minimum <= Len(NonEmptyItems(items)) /\ Len(NonEmptyItems(items)) <= maximum

\* _prompt_party_tags: no answer gives ['adventure'].
_prompt_party_tags(items) ==
    IF items = <<>> THEN [asked_again |-> FALSE, value |-> <<"adventure">>]
    ELSE IF _prompt_tags(items, 1, 3)
    THEN [asked_again |-> FALSE, value |-> NonEmptyItems(items)]
    ELSE [asked_again |-> TRUE, value |-> <<>>]

\* _slugify_tag(name) for the names typed
Slug(name) == CASE name = "Ann" -> "ann" [] name = "Bo" -> "bo" [] OTHER -> ""

\* _generate_member_id: "pc_" and the slug, then "_2", "_3" while the id is
\* taken; a name without a letter or digit gives "pc_{index}".
CandidateIds(name, index) ==
    CASE Slug(name) = "ann" -> <<"pc_ann", "pc_ann_2", "pc_ann_3">>
      [] Slug(name) = "bo"  -> <<"pc_bo", "pc_bo_2", "pc_bo_3">>
      [] OTHER -> CASE index = 1 -> <<"pc_1", "pc_1_2", "pc_1_3">>
                    [] index = 2 -> <<"pc_2", "pc_2_2", "pc_2_3">>
                    [] OTHER     -> <<"pc_3", "pc_3_2", "pc_3_3">>

_generate_member_id(name, existing_ids, index) ==
    LET ids == CandidateIds(name, index)
    IN  ids[CHOOSE i \in 1..Len(ids) :
                /\ ids[i] \notin existing_ids
                /\ \A j \in 1..(i - 1) : ids[j] \in existing_ids]

\* DnDMaster._collect_member_data on the answers of entry: every question is
\* asked again until its answer is returned, so the member is built only
\* from answers the prompts returned.
_collect_member_data(entry, existing_ids, index) ==
    [returned |->
        /\ entry.name # "" /\ entry.role # "" /\ entry.concept # ""
        /\ \A i \in 1..Len(entry.stats) :
               _prompt_int(entry.stats[i].value, MIN_STAT, MAX_STAT)
        /\ _prompt_int(entry.hp, MIN_HP, MAX_HP)
        /\ _prompt_fixed_list(entry.traits, 2)
        /\ _prompt_fixed_list(entry.loadout, 2)
        /\ _prompt_tags(entry.tags, 1, 2),
     member |->
        [id |-> _generate_member_id(entry.name, existing_ids, index),
         name |-> entry.name, role |-> entry.role, concept |-> entry.concept,
         stats |-> entry.stats, traits |-> NonEmptyItems(entry.traits),
         loadout |-> NonEmptyItems(entry.loadout), hp |-> entry.hp,
         tags |-> NonEmptyItems(entry.tags)]]

\* The stats the form reads: a text that is no integer counts as 0.
FormStats(stats) ==
    [i \in 1..Len(stats) |->
        [key |-> stats[i].key,
         value |-> IF isinstance_int(stats[i].value) THEN stats[i].value
                   ELSE IntVal(0)]]

\* CharacterFormDialog._on_submit on the fields as filled in, then
\* DnDMasterGUI._collect_member_data: the form stays open (returned FALSE)
\* until _on_submit sets its result.
_on_submit(entry, existing_ids, index, stats_limit) ==
    [returned |->
        /\ entry.name # "" /\ entry.role # "" /\ entry.concept # ""
        /\ \A i \in 1..Len(entry.stats) :
               /\ FormStats(entry.stats)[i].value.value >= -1
               /\ FormStats(entry.stats)[i].value.value <= 3
        /\ SumSeq([i \in 1..Len(entry.stats) |->
                      FormStats(entry.stats)[i].value.value]) <= stats_limit
        /\ isinstance_int(entry.hp) /\ entry.hp.value >= 8 /\ entry.hp.value <= 14
        /\ ~AnyEmpty(entry.traits)
        /\ ~AnyEmpty(entry.loadout)
        /\ 1 <= Len(NonEmptyItems(entry.tags)) /\ Len(NonEmptyItems(entry.tags)) <= 2,
     member |->
        [id |-> _generate_member_id(entry.name, existing_ids, index),
         name |-> entry.name, role |-> entry.role, concept |-> entry.concept,
         stats |-> FormStats(entry.stats), traits |-> entry.traits,
         loadout |-> entry.loadout, hp |-> entry.hp,
         tags |-> NonEmptyItems(entry.tags)]]

stat_points_limit == 6

\* What ensure_party_initialized does with a PartyValidationError of the
\* creation flow: the CLI prints it and calls sys.exit(1); the GUI shows it
\* and returns, and the session goes on without a party.
except_PartyValidationError(the_app) ==
    IF the_app = "cli" THEN "exit(1)" ELSE "play"

(***************************************************************************)
(* The files found at start, the answers of the user.                      *)
(***************************************************************************)
\* A stored party with the marker, one without, and the payload of a
\* single-party file with no state_delta at all.
StoredParty == Dict(build_payload(<<Member("pc_ann")>>, 10, 3, <<"adventure">>))

UnmarkedParty ==
    Dict([party |-> [max_size |-> 3, members |-> <<>>],
          state_delta |-> [flags |-> [set |-> <<>>]]])

OldParty == Dict([party |-> [max_size |-> 3, members |-> <<>>]])

Files ==
    { NoFile, BadFile, JsonFile(List(<<>>)),
      JsonFile(StoredParty), JsonFile(OldParty),
      JsonFile(Dict([scenarios |-> Dict(<<>>)])),
      JsonFile(Dict([scenarios |-> Dict([camp |-> StoredParty])])),
      JsonFile(Dict([scenarios |-> Dict([camp |-> StoredParty,
                                         ruins |-> UnmarkedParty])])),
      JsonFile(Dict([scenarios |-> Dict([default |-> List(<<>>),
                                         camp |-> StoredParty]),
                     party |-> [max_size |-> 3, members |-> <<>>]])),
      JsonFile(Dict([scenarios |-> List(<<>>)])),
      JsonFile(Dict([scenarios |-> List(<<>>),
                     party |-> [max_size |-> 3, members |-> <<>>]])),
      JsonFile(Dict([rules |-> List(<<>>)])) }

ScenarioChoices(the_app) ==
    {Str(""), Str("1"), Str("2"), Str("9"), Str("camp"), Str("dunes")}
    \cup (IF the_app = "gui" THEN {None} ELSE {})

Entry(name, stats, hp, traits, loadout, tags) ==
    [name |-> name, role |-> "scout", concept |-> "runaway", stats |-> stats,
     traits |-> traits, loadout |-> loadout, hp |-> hp, tags |-> tags]

GoodStats == Stats(IntVal(2), IntVal(2), IntVal(0), IntVal(0), IntVal(-1))

\* The answers for one character: two that break no rule, and answers that
\* break one (the form has two fields for traits and two for loadout, so
\* only the CLI gets another number of items).
Entries(the_app) ==
    { Entry("Ann", GoodStats, IntVal(10), <<"brave", "curious">>,
            <<"rope", "lamp">>, <<"adventure">>),
      Entry("Ann", Stats(IntVal(3), IntVal(3), IntVal(0), IntVal(0), IntVal(0)),
            IntVal(14), <<"calm", "wry">>, <<"book", "ink">>, <<"lore", "", "city">>),
      Entry("Ann", Stats(IntVal(3), IntVal(3), IntVal(1), IntVal(0), IntVal(0)),
            IntVal(8), <<"calm", "wry">>, <<"book", "ink">>, <<"lore">>),
      Entry("", GoodStats, IntVal(10), <<"brave", "curious">>,
            <<"rope", "lamp">>, <<"adventure">>),
      Entry("Bo", Stats(IntVal(4), IntVal(0), IntVal(0), IntVal(0), IntVal(0)),
            IntVal(10), <<"brave", "curious">>, <<"rope", "lamp">>, <<"adventure">>),
      Entry("Bo", Stats(IntVal(0), FloatVal(2), IntVal(0), IntVal(0), IntVal(0)),
            IntVal(10), <<"brave", "curious">>, <<"rope", "lamp">>, <<"adventure">>),
      Entry("Bo", GoodStats, IntVal(7), <<"brave", "curious">>,
            <<"rope", "lamp">>, <<"adventure">>),
      Entry("Bo", GoodStats, IntVal(15), <<"brave", "curious">>,
            <<"rope", "lamp">>, <<"adventure">>),
      Entry("Bo", GoodStats, FloatVal(10), <<"brave", "curious">>,
            <<"rope", "lamp">>, <<"adventure">>),
      Entry("Bo", GoodStats, IntVal(10), <<"brave", "">>,
            <<"rope", "lamp">>, <<"adventure">>),
      Entry("Bo", GoodStats, IntVal(10), <<"brave", "curious">>,
            <<"", "lamp">>, <<"adventure">>),
      Entry("Bo", GoodStats, IntVal(10), <<"brave", "curious">>,
            <<"rope", "lamp">>, <<>>),
      Entry("Bo", GoodStats, IntVal(10), <<"brave", "curious">>,
            <<"rope", "lamp">>, <<"a", "b", "c">>) }
    \cup (IF the_app = "cli"
          THEN { Entry("Bo", GoodStats, IntVal(10), <<"brave", "", "curious">>,
                       <<"rope", "lamp">>, <<"adventure">>),
                 Entry("Bo", GoodStats, IntVal(10), <<"brave", "curious">>,
                       <<"rope", "lamp", "map">>, <<"adventure">>) }
          ELSE {})

SizeAnswers == {None, IntVal(0), IntVal(1), IntVal(2), IntVal(3), IntVal(4)}

ResourceAnswers == {None, IntVal(-1), IntVal(5), FloatVal(5)}

PartyTagAnswers == {<<>>, <<"grim", "", "heist">>, <<"a", "b", "c", "d">>}

SceneAnswers == {None, Str(""), Str("a scene")}

(***************************************************************************)
(* The steps of a session, from the constructor to play.                   *)
(***************************************************************************)
MasterInit ==
    /\ app \in {"cli", "gui"}
    /\ master_pc = "__init__"
    /\ party_state_file \in Files
    /\ party_store = default_store
    /\ current_scenario = None
    /\ party_state = None
    /\ party_size = 0
    /\ _members = <<>> /\ coin = 0 /\ rations = 0 /\ party_tags = <<>>
    /\ last = Last("none", None, NoError, "")
    /\ DiceIdle
    /\ ConcIdle /\ AliasIdle /\ GuiIdle

MasterFrame == UNCHANGED <<app, diceVars, formatVars, concVars, aliasVars, guiVars>>

BuilderFrame == UNCHANGED <<_members, coin, rations, party_tags>>

StoreFrame == UNCHANGED <<party_state_file, party_store, current_scenario, party_state>>

\* The question is asked again: nothing changes but the record of the call.
AskedAgain(op, answer) ==
    /\ last' = Last(op, answer, NoError, "asked again")
    /\ UNCHANGED <<master_pc, party_size>>
    /\ BuilderFrame
    /\ StoreFrame

\* __init__: self.party_store = self.load_party_state()
LoadPartyState ==
    /\ master_pc = "__init__"
    /\ LET loaded == IF app = "cli" THEN load_party_state(party_state_file)
                     ELSE load_party_state_gui(party_state_file)
       IN  /\ party_store' = loaded.store
           /\ party_state_file' = loaded.file
    /\ master_pc' = "scenario"
    /\ last' = Last("load_party_state", None, NoError, "")
    /\ UNCHANGED <<current_scenario, party_state, party_size>>
    /\ BuilderFrame
    /\ MasterFrame

\* ensure_party_initialized up to the next question: the scenario is chosen
\* (_ensure_scenario_selected), its stored party becomes party_state, and the
\* creation flow starts unless party_initialized.
EnsureScenarioSelected ==
    /\ master_pc = "scenario"
    /\ \E choice \in ScenarioChoices(app) :
           LET scenarios == party_store.scenarios
               selected  == SelectScenario(app = "gui", scenario_names(scenarios),
                                           choice)
               state     == IF Has(scenarios, selected.name)
                               /\ isinstance_dict(scenarios[selected.name])
                            THEN scenarios[selected.name] ELSE party_state
           IN  IF selected.asked_again
               THEN AskedAgain("_ensure_scenario_selected", choice)
               ELSE /\ current_scenario' = Str(selected.name)
                    /\ party_state' = state
                    /\ master_pc' = IF party_initialized(state) THEN "play"
                                    ELSE "party_size"
                    /\ last' = Last("_ensure_scenario_selected", choice, NoError,
                                    selected.name)
                    /\ UNCHANGED <<party_state_file, party_store, party_size>>
                    /\ BuilderFrame
    /\ MasterFrame

\* _run_party_creation_flow: party_size = self._prompt_party_size() and
\* builder = PartyBuilder()
PromptPartySize ==
    /\ master_pc = "party_size"
    /\ \E answer \in SizeAnswers :
           IF _prompt_party_size(answer)
           THEN /\ party_size' = answer.value
                /\ _members' = <<>> /\ coin' = 0 /\ rations' = 0 /\ party_tags' = <<>>
                /\ master_pc' = "member"
                /\ last' = Last("_prompt_party_size", answer, NoError, "returned")
                /\ StoreFrame
           ELSE AskedAgain("_prompt_party_size", answer)
    /\ MasterFrame

\* One character of the loop: member = self._collect_member_data(...) and
\* builder.add_member(member); a PartyValidationError leaves the flow for the
\* except clause of ensure_party_initialized.
CollectMember ==
    /\ master_pc = "member"
    /\ \E entry \in Entries(app) :
           LET existing_ids == {_members[i].id : i \in 1..Len(_members)}
               index        == Len(_members) + 1
               collected    == IF app = "cli"
                               THEN _collect_member_data(entry, existing_ids, index)
                               ELSE _on_submit(entry, existing_ids, index,
                                               stat_points_limit)
               error        == AddMemberError(_members, collected.member)
           IN  IF ~collected.returned
               THEN AskedAgain("_collect_member_data", entry)
               ELSE /\ _members' = AddMemberEffect(_members, collected.member, error)
                    /\ last' = Last("add_member", collected.member, error, "")
                    /\ master_pc' =
                           IF error.raised THEN except_PartyValidationError(app)
                           ELSE IF Len(_members) + 1 = party_size THEN "coin"
                           ELSE "member"
                    /\ UNCHANGED <<coin, rations, party_tags, party_size>>
                    /\ StoreFrame
    /\ MasterFrame

\* coin = self._prompt_optional_int(..., minimum=0, default=0), given to
\* builder.coin before the payload is built
PromptCoin ==
    /\ master_pc = "coin"
    /\ \E answer \in ResourceAnswers :
           LET asked == _prompt_optional_int(answer, 0, 0)
           IN  IF asked.asked_again
               THEN AskedAgain("_prompt_optional_int", answer)
               ELSE /\ coin' = asked.value
                    /\ master_pc' = "rations"
                    /\ last' = Last("_prompt_optional_int", answer, NoError, "returned")
                    /\ UNCHANGED <<_members, rations, party_tags, party_size>>
                    /\ StoreFrame
    /\ MasterFrame

PromptRations ==
    /\ master_pc = "rations"
    /\ \E answer \in ResourceAnswers :
           LET asked == _prompt_optional_int(answer, 0, 0)
           IN  IF asked.asked_again
               THEN AskedAgain("_prompt_optional_int", answer)
               ELSE /\ rations' = asked.value
                    /\ master_pc' = "party_tags"
                    /\ last' = Last("_prompt_optional_int", answer, NoError, "returned")
                    /\ UNCHANGED <<_members, coin, party_tags, party_size>>
                    /\ StoreFrame
    /\ MasterFrame

\* party_tags = self._prompt_party_tags(), payload = builder.build_payload(),
\* and back in ensure_party_initialized the payload is stored under the
\* scenario and saved.
PromptPartyTags ==
    /\ master_pc = "party_tags"
    /\ \E answer \in PartyTagAnswers :
           LET asked   == _prompt_party_tags(answer)
               payload == Dict(build_payload(_members, coin, rations, asked.value))
               store   == [scenarios |-> Put(party_store.scenarios,
                                             current_scenario.str, payload)]
           IN  IF asked.asked_again
               THEN AskedAgain("_prompt_party_tags", List(answer))
               ELSE /\ party_tags' = asked.value
                    /\ party_state' = payload
                    /\ party_store' = store
                    /\ party_state_file' = Dump(store)
                    /\ master_pc' = IF app = "cli" THEN "play" ELSE "first_scene"
                    /\ last' = Last("build_payload", None, NoError, "saved")
                    /\ UNCHANGED <<_members, coin, rations, party_size,
                                   current_scenario>>
    /\ MasterFrame

\* DnDMasterGUI: scene_description = self._prompt_first_scene_description(),
\* written into party_state and saved again.
PromptFirstScene ==
    /\ master_pc = "first_scene"
    /\ \E answer \in SceneAnswers :
           LET state == Dict(Put(party_state.items, "initial_scene", answer.str))
               store == [scenarios |-> Put(party_store.scenarios,
                                           current_scenario.str, state)]
           IN  IF answer = None \/ answer = Str("")
               THEN AskedAgain("_prompt_first_scene_description", answer)
               ELSE /\ party_state' = state
                    /\ party_store' = store
                    /\ party_state_file' = Dump(store)
                    /\ master_pc' = "play"
                    /\ last' = Last("_prompt_first_scene_description", answer,
                                    NoError, "saved")
                    /\ UNCHANGED <<party_size, current_scenario>>
                    /\ BuilderFrame
    /\ MasterFrame

\* DnDMaster: Ctrl-C at a question of the creation flow, sys.exit(0)
KeyboardInterrupt ==
    /\ app = "cli"
    /\ master_pc \in {"party_size", "member", "coin", "rations", "party_tags"}
    /\ master_pc' = "exit(0)"
    /\ last' = Last("KeyboardInterrupt", None, NoError, "")
    /\ UNCHANGED party_size
    /\ BuilderFrame
    /\ StoreFrame
    /\ MasterFrame

MasterNext ==
    \/ LoadPartyState
    \/ EnsureScenarioSelected
    \/ PromptPartySize
    \/ CollectMember
    \/ PromptCoin
    \/ PromptRations
    \/ PromptPartyTags
    \/ PromptFirstScene
    \/ KeyboardInterrupt

MasterSpec == MasterInit /\ [][MasterNext]_vars

(***************************************************************************)
(* The chat and the dice challenge of DnDMasterGUI.  The main thread runs  *)
(* one handler at a time (a click, a key, a callback given to root.after); *)
(* each threading.Thread started by a handler is an entry of workers and   *)
(* takes its steps between the handlers.  A response is a sequence of      *)
(* pieces, the first of which is ErrorMarker when the text starts with     *)
(* the cross mark.  The modal dialogs (DiceChallengeDialog, askyesno) are  *)
(* part of the handler that opens them.                                    *)
(***************************************************************************)
MaxHistory == 3

MaxWorkers == 2

ErrorMarker == "X"

InputTexts == {"", "look"}

\* What the model answers to a request
Reply(user_input) ==
    IF user_input = "look" THEN "you see a door" ELSE "the roll decides"

ChallengeData == {[title |-> "Climb", dc |-> 12], [title |-> "Sneak", dc |-> 15]}

RawValues == {"", "abc", "14+3"}

\* _parse_roll_total for the values typed
_parse_roll_total(raw) == IF raw = "14+3" THEN IntVal(17) ELSE None

\* response.startswith of the cross mark
startswith_error(response) == response # <<>> /\ response[1] = ErrorMarker

HistoryEntry(role, content) == [role |-> role, content |-> content]

Thread(target, user_input) ==
    [target |-> target, pc |-> "start", user_input |-> user_input]

Remove(s, i) == SubSeq(s, 1, i - 1) \o SubSeq(s, i + 1, Len(s))

\* The widgets and the field the challenge handlers change
ChallengeUi ==
    [active |-> active_dice_challenge, frame |-> challenge_frame,
     challenge |-> challenge_button, submit |-> challenge_submit_button,
     cancel |-> challenge_cancel_button]

SetChallengeUi(ui) ==
    /\ active_dice_challenge' = ui.active
    /\ challenge_frame' = ui.frame
    /\ challenge_button' = ui.challenge
    /\ challenge_submit_button' = ui.submit
    /\ challenge_cancel_button' = ui.cancel

challengeUiVars ==
    <<active_dice_challenge, challenge_frame, challenge_button,
      challenge_submit_button, challenge_cancel_button>>

_reset_challenge_ui ==
    [active |-> None, frame |-> "forgotten", challenge |-> "normal",
     submit |-> "normal", cancel |-> "normal"]

\* _finalize_challenge that resets the panel whatever the response is.
_finalize_challenge_always_resets(response, ui) == _reset_challenge_ui

\* _finalize_challenge: a response that starts with the cross mark keeps the
\* challenge and gives the two buttons back.
_finalize_challenge(response, ui) ==
    IF startswith_error(response)
    THEN [ui EXCEPT !.submit = "normal", !.cancel = "normal"]
    ELSE _reset_challenge_ui

\* _activate_dice_challenge(data)
_activate_dice_challenge(data) ==
    [active |-> data, frame |-> "packed", challenge |-> "disabled",
     submit |-> "normal", cancel |-> "normal"]

GuiInit ==
    /\ GuiIdle
    /\ PartyIdle /\ DiceIdle /\ ConcIdle /\ AliasIdle /\ MasterIdle

GuiFrame ==
    UNCHANGED <<_members, coin, rations, party_tags, diceVars, formatVars,
                concVars, aliasVars, masterVars>>

\* send_message(): nothing for an empty input; else the button is disabled
\* and a thread is started with process_message.
send_message(user_input) ==
    /\ IF user_input = ""
       THEN UNCHANGED <<send_button, workers>>
       ELSE /\ send_button' = "disabled"
            /\ workers' = Append(workers, Thread("process_message", user_input))
    /\ last' = [op |-> "send_message"]
    /\ UNCHANGED <<challengeUiVars, conversation_history, after_queue>>
    /\ GuiFrame

\* The send button, which Tk invokes only while its state is normal
ClickSend ==
    /\ send_button = "normal"
    /\ Len(workers) < MaxWorkers /\ Len(conversation_history) < MaxHistory
    /\ \E user_input \in InputTexts : send_message(user_input)

\* The binding of Control-Return on the input text, whatever the button is
CtrlReturn ==
    /\ Len(workers) < MaxWorkers /\ Len(conversation_history) < MaxHistory
    /\ \E user_input \in InputTexts : send_message(user_input)

\* get_master_response in a thread: the user entry is appended
AppendUserEntry(i) ==
    /\ workers[i].pc = "start"
    /\ conversation_history' =
           Append(conversation_history, HistoryEntry("user", workers[i].user_input))
    /\ workers' = [workers EXCEPT ![i].pc = "create"]
    /\ last' = [op |-> "get_master_response"]
    /\ UNCHANGED <<send_button, challengeUiVars, after_queue>>
    /\ GuiFrame

\* The callback the thread gives to root.after with its response
Callback(thread, response) ==
    [callback |-> IF thread.target = "process_message"
                  THEN "display_master_response" ELSE "_finalize_challenge",
     response |-> response]

\* chat.completions.create returns: the assistant entry is appended, the
\* response goes to root.after and the thread ends
CreateReturns(i) ==
    /\ workers[i].pc = "create"
    /\ conversation_history' =
           Append(conversation_history,
                  HistoryEntry("assistant", Reply(workers[i].user_input)))
    /\ after_queue' =
           Append(after_queue,
                  Callback(workers[i], <<Reply(workers[i].user_input)>>))
    /\ workers' = Remove(workers, i)
    /\ last' = [op |-> "get_master_response"]
    /\ UNCHANGED <<send_button, challengeUiVars>>
    /\ GuiFrame

\* chat.completions.create raises: the response is the error text
CreateRaises(i) ==
    /\ workers[i].pc = "create"
    /\ after_queue' =
           Append(after_queue, Callback(workers[i], <<ErrorMarker, "error">>))
    /\ workers' = Remove(workers, i)
    /\ last' = [op |-> "get_master_response"]
    /\ UNCHANGED <<send_button, challengeUiVars, conversation_history>>
    /\ GuiFrame

\* display_master_response(response), run by the main loop
DisplayMasterResponse ==
    /\ after_queue # <<>>
    /\ Head(after_queue).callback = "display_master_response"
    /\ send_button' = "normal"
    /\ after_queue' = Tail(after_queue)
    /\ last' = [op |-> "display_master_response"]
    /\ UNCHANGED <<challengeUiVars, conversation_history, workers>>
    /\ GuiFrame

\* _finalize_challenge(response, total), run by the main loop
FinalizeChallenge ==
    /\ after_queue # <<>>
    /\ Head(after_queue).callback = "_finalize_challenge"
    /\ SetChallengeUi(_finalize_challenge(Head(after_queue).response, ChallengeUi))
    /\ after_queue' = Tail(after_queue)
    /\ last' = [op |-> "_finalize_challenge"]
    /\ UNCHANGED <<send_button, conversation_history, workers>>
    /\ GuiFrame

\* show_dice_challenge_dialog, the command of challenge_button:
\* dialog_result is what dialog.show() returns.
ShowDiceChallengeDialog ==
    /\ challenge_button = "normal"
    /\ Len(conversation_history) < MaxHistory
    /\ \E dialog_result \in {None} \cup ChallengeData :
           IF active_dice_challenge # None \/ dialog_result = None
           THEN UNCHANGED <<challengeUiVars, conversation_history>>
           ELSE /\ conversation_history' =
                       Append(conversation_history,
                              HistoryEntry("assistant", "challenge announced"))
                /\ SetChallengeUi(_activate_dice_challenge(dialog_result))
    /\ last' = [op |-> "show_dice_challenge_dialog"]
    /\ UNCHANGED <<send_button, workers, after_queue>>
    /\ GuiFrame

\* _submit_challenge_result, the command of challenge_submit_button
SubmitChallengeResult ==
    /\ challenge_frame = "packed" /\ challenge_submit_button = "normal"
    /\ Len(workers) < MaxWorkers /\ Len(conversation_history) < MaxHistory
    /\ \E raw_value \in RawValues :
           IF \/ active_dice_challenge = None
              \/ raw_value = ""
              \/ _parse_roll_total(raw_value) = None
           THEN UNCHANGED <<challengeUiVars, workers>>
           ELSE /\ challenge_submit_button' = "disabled"
                /\ challenge_cancel_button' = "disabled"
                /\ workers' = Append(workers,
                                     Thread("_resolve_challenge_thread", raw_value))
                /\ UNCHANGED <<active_dice_challenge, challenge_frame,
                               challenge_button>>
    /\ last' = [op |-> "_submit_challenge_result"]
    /\ UNCHANGED <<send_button, conversation_history, after_queue>>
    /\ GuiFrame

\* _cancel_active_challenge, the command of challenge_cancel_button: confirm
\* is the answer to askyesno.
CancelActiveChallenge ==
    /\ challenge_frame = "packed" /\ challenge_cancel_button = "normal"
    /\ Len(conversation_history) < MaxHistory
    /\ \E confirm \in BOOLEAN :
           IF active_dice_challenge = None
           THEN /\ SetChallengeUi(_reset_challenge_ui)
                /\ UNCHANGED conversation_history
                /\ last' = [op |-> "_cancel_active_challenge", confirm |-> FALSE]
           ELSE IF ~confirm
           THEN /\ UNCHANGED <<challengeUiVars, conversation_history>>
                /\ last' = [op |-> "_cancel_active_challenge", confirm |-> FALSE]
           ELSE /\ conversation_history' =
                       Append(conversation_history,
                              HistoryEntry("assistant", "challenge cancelled"))
                /\ SetChallengeUi(_reset_challenge_ui)
                /\ last' = [op |-> "_cancel_active_challenge", confirm |-> TRUE]
    /\ UNCHANGED <<send_button, workers, after_queue>>
    /\ GuiFrame

GuiNext ==
    \/ ClickSend
    \/ CtrlReturn
    \/ \E i \in 1..Len(workers) : AppendUserEntry(i)
    \/ \E i \in 1..Len(workers) : CreateReturns(i)
    \/ \E i \in 1..Len(workers) : CreateRaises(i)
    \/ DisplayMasterResponse
    \/ FinalizeChallenge
    \/ ShowDiceChallengeDialog
    \/ SubmitChallengeResult
    \/ CancelActiveChallenge

GuiSpec == GuiInit /\ [][GuiNext]_vars

(***************************************************************************)
(* DiceRoller.format_roll_result                                           *)
(*                                                                         *)
(* The returned str is the sequence of the pieces the f-strings put        *)
(* together.  The fixed texts of the source are Russian words and emoji;   *)
(* each is written here as one ASCII piece.                                *)
(***************************************************************************)
ErrorLabel     == "X roll error: "    \* the failure prefix of line 153
DieLabel       == "(die) "            \* the die emoji and space of line 188
RollsLabel     == "Roll: ["
ModifierLabel  == "Modifier: "
AbilityLabel   == "Ability: "
AttackLabel    == "Attack bonus: "
CriticalLabel  == "CRITICAL HIT!"
FumbleLabel    == "CRITICAL MISS!"
AdvantageLabel == "Advantage"
DisadvantageLabel == "Disadvantage"

\* str(e) of the ValueError: the fixed part of the message, then the text
\* it embeds.
StrError(e) == <<e.kind>> \o e.text

\* sep.join(items) for items that are strs
RECURSIVE JoinStr(_, _)
JoinStr(items, sep) ==
    IF Len(items) = 0 THEN <<>>
    ELSE IF Len(items) = 1 THEN items[1]
    ELSE items[1] \o <<sep>> \o JoinStr(Tail(items), sep)

\* f"+{m}" if m > 0 else str(m)
ModStr(m) == IF m > 0 THEN <<"+">> \o IntToStr(m) ELSE IntToStr(m)

\* result.get(key) as a condition
Get(r, key) == Has(r, key) /\ r[key]

\* One bonus section: present when the key is there and its value is not 0.
BonusSection(r, key, label) ==
    IF Has(r, key) /\ r[key] # 0 THEN << <<label>> \o ModStr(r[key]) >> ELSE <<>>

\* CriticalSection with the fumble looked at first.
CriticalSectionFumbleFirst(r) ==
    IF Get(r, "is_fumble") THEN << <<FumbleLabel>> >>
    ELSE IF Get(r, "is_critical") THEN << <<CriticalLabel>> >>
    ELSE <<>>

CriticalSection(r) ==
    IF Get(r, "is_critical") THEN << <<CriticalLabel>> >>
    ELSE IF Get(r, "is_fumble") THEN << <<FumbleLabel>> >>
    ELSE <<>>

AdvantageSection(r) ==
    IF Get(r, "advantage") THEN << <<AdvantageLabel>> >>
    ELSE IF Get(r, "disadvantage") THEN << <<DisadvantageLabel>> >>
    ELSE <<>>

\* The list details, in the order of its appends.
Details(r) ==
    (IF Has(r, "rolls")
     THEN << <<RollsLabel>>
             \o JoinStr([i \in 1..Len(r.rolls) |-> IntToStr(r.rolls[i])], ", ")
             \o <<"]">> >>
     ELSE <<>>)
    \o BonusSection(r, "modifier", ModifierLabel)
    \o BonusSection(r, "ability_modifier", AbilityLabel)
    \o BonusSection(r, "attack_bonus", AttackLabel)
    \o CriticalSection(r)
    \o AdvantageSection(r)

format_roll_result(r) ==
    IF Has(r, "error") THEN <<ErrorLabel>> \o StrError(r.error)
    ELSE <<DieLabel>> \o r.dice_string \o <<" = ">> \o IntToStr(r.total)
         \o <<" (">> \o JoinStr(Details(r), " | ") \o <<")">>

\* The notations whose results are formatted: with and without modifier, one
\* and two dice, and notations the parser refuses.
FormatStrings ==
    { <<"d", "2", "0">>, <<"2", "d", "2", "0">>, <<"d", "2", "0", "+", "3">>,
      <<"d", "6", "-", "1">>, <<"2", "d", "6", "+", "3">>, <<"d", "4", "+", "0">>,
      <<"d", "7">>, <<"d", "2", "0", "+", "x">>, <<"x">>, <<>> }

IsFormatCall(c) ==
    \/ \E s \in FormatStrings : c = Call("roll_dice", s, 0, FALSE, FALSE)
    \/ \E s \in FormatStrings, b \in Bonuses :
           c = Call("roll_damage", s, b, FALSE, FALSE)
    \/ \E b \in Bonuses, a \in BOOLEAN, d \in BOOLEAN :
           c = Call("roll_ability_check", d20, b, a, d)
    \/ \E b \in Bonuses : c = Call("roll_attack", d20, b, FALSE, FALSE)
    \/ \E b \in Bonuses : c = Call("roll_initiative", d20, b, FALSE, FALSE)

FormatInit ==
    /\ pc = "call"
    /\ IsFormatCall(call)
    /\ drawn = <<>>
    /\ result = NoResult
    /\ PartyIdle
    /\ FormatIdle /\ ConcIdle /\ AliasIdle /\ MasterIdle /\ GuiIdle

\* format_roll_result(result), on the dict a roll returned.
FormatRollResult ==
    /\ pc = "done"
    /\ pc' = "formatted"
    /\ formatted' = format_roll_result(result)
    /\ UNCHANGED <<call, drawn, result, partyVars, concVars, aliasVars,
                   masterVars, guiVars>>

FormatNext == Next \/ FormatRollResult

FormatSpec == FormatInit /\ [][FormatNext]_vars

(***************************************************************************)
(* Properties of the dice engine, checked under Spec.                      *)
(***************************************************************************)
Returned(op) == pc = "done" /\ call.op = op

IsError(r) == Has(r, "error")

\* The ways a caller writes a count N >= 1 (omitted: one die), and a
\* modifier: nothing, +M or -M.
WrittenCounts ==
    {[token |-> <<>>, count |-> 1]}
    \cup {[token |-> NatToStr(N), count |-> N] : N \in 1..MaxCount}

WrittenModifiers ==
    {[token |-> <<>>, modifier |-> 0]}
    \cup {[token |-> <<"+">> \o NatToStr(M), modifier |-> M] : M \in 0..MaxMod}
    \cup {[token |-> <<"-">> \o NatToStr(M), modifier |-> -M] : M \in 0..MaxMod}

\* The notations NdS, NdS+M, NdS-M and dS, each with the count, sides and
\* modifier it stands for.
ValidNotations ==
    { [dice_string |-> c.token \o <<"d">> \o NatToStr(S) \o m.token,
       count |-> c.count, sides |-> S, modifier |-> m.modifier] :
      c \in WrittenCounts, S \in dice_types, m \in WrittenModifiers }

\* C1: for every notation NdS, NdS+M, NdS-M or dS with N >= 1, S a supported
\* die and M >= 0, roll_dice returns a success outcome with count = N (1 when
\* omitted), sides = S, modifier = +M, -M or 0, exactly N rolls, each in
\* 1..S, and total = sum(rolls) + modifier.
C1_ValidNotationRolls ==
    Returned("roll_dice") =>
        \A v \in ValidNotations :
            call.dice_string = v.dice_string =>
                /\ ~IsError(result)
                /\ result.count = v.count
                /\ result.sides = v.sides
                /\ result.modifier = v.modifier
                /\ Len(result.rolls) = v.count
                /\ \A i \in 1..Len(result.rolls) : result.rolls[i] \in 1..v.sides
                /\ result.total = SumSeq(result.rolls) + v.modifier

\* '2d6+3' rolled with the dice [4, 5]: total 12, no critical.
C1_Witness ==
    /\ Returned("roll_dice")
    /\ call.dice_string = <<"2", "d", "6", "+", "3">>
    /\ drawn = <<4, 5>>
    /\ result.rolls = <<4, 5>>
    /\ result.total = 12
    /\ result.is_critical = FALSE

\* C2: roll_dice returns for every input, and every parse failure is
\* returned as the error outcome {dice_string: the original input, error:
\* the message, total: 0}, without rolls; the empty string, missing digits,
\* an unsupported die and a malformed modifier are such failures.
C2_ParseFailureIsErrorOutcome ==
    Returned("roll_dice") =>
        /\ IsError(result) <=> ~_parse_dice_string(call.dice_string).ok
        /\ call.dice_string \in { <<>>, <<"d">>, <<"2", "d">>, <<"d", "7">>,
                                  <<"d", "2", "0", "x">>, <<"d", "2", "0", "+">>,
                                  <<"d", "2", "0", "+", "3", "a">> }
               => IsError(result)
        /\ IsError(result) =>
               /\ DOMAIN result = {"dice_string", "error", "total"}
               /\ result.dice_string = call.dice_string
               /\ result.error = _parse_dice_string(call.dice_string).error
               /\ result.error.kind # "none"
               /\ result.total = 0

\* 'd20+3a' fails inside int(), not on a raise of the parser's own.
C2_Witness ==
    /\ Returned("roll_dice")
    /\ call.dice_string = <<"d", "2", "0", "+", "3", "a">>
    /\ IsError(result)
    /\ result.error.kind = "invalid_literal_for_int"

\* Every count token (or none), the marker, an unsupported number of sides,
\* and every tail: valid, malformed or absent.
UnsupportedNotations ==
    { [dice_string |-> c \o <<"d">> \o NatToStr(S) \o t,
       named |-> <<"d">> \o NatToStr(S)] :
      c \in CountTokens, S \in UnsupportedSides, t \in Tails }

\* C3: a notation whose sides token is a number S that is no supported die
\* gives the unsupported-die-type error naming dS, whatever the count and
\* whatever follows the sides token.
C3_UnsupportedSidesFirst ==
    Returned("roll_dice") =>
        \A v \in UnsupportedNotations :
            call.dice_string = v.dice_string =>
                /\ IsError(result)
                /\ result.error = ValueError("unsupported_die_type", v.named)

\* '2d7+': an unsupported die followed by a malformed modifier.
C3_Witness ==
    /\ Returned("roll_dice")
    /\ call.dice_string = <<"2", "d", "7", "+">>
    /\ IsError(result)
    /\ result.error.kind = "unsupported_die_type"

\* C4: in every success outcome is_critical is true iff sides = 20 and some
\* die, at any position, shows 20; is_fumble is true iff sides = 20 and some
\* die shows 1; the two flags are independent of each other.
C4_CriticalAndFumble ==
    (pc = "done" /\ ~IsError(result)) =>
        /\ result.is_critical
               <=> (result.sides = 20
                    /\ \E i \in 1..Len(result.rolls) : result.rolls[i] = 20)
        /\ result.is_fumble
               <=> (result.sides = 20
                    /\ \E i \in 1..Len(result.rolls) : result.rolls[i] = 1)
        /\ result.sides # 20 => ~result.is_critical /\ ~result.is_fumble

\* Two d20 showing 1 then 20: both flags, the critical from the second die.
C4_Witness ==
    /\ Returned("roll_dice")
    /\ call.dice_string = <<"2", "d", "2", "0">>
    /\ result.rolls = <<1, 20>>
    /\ result.is_critical /\ result.is_fumble

Max(a, b) == IF a > b THEN a ELSE b

Min(a, b) == IF a < b THEN a ELSE b

\* The outcome of a single d20 showing face, before any bonus.
KeptD20(r, face) ==
    /\ ~IsError(r)
    /\ r.rolls = <<face>>
    /\ r.sides = 20 /\ r.count = 1 /\ r.modifier = 0
    /\ r.is_critical = (face = 20)
    /\ r.is_fumble = (face = 1)

\* C5: with advantage only, roll_ability_check makes exactly two d20 rolls
\* and returns the outcome of the higher face, tagged advantage; with
\* disadvantage only, that of the lower face, tagged disadvantage; the kept
\* roll does not depend on the ability modifier.
C5_AdvantageKeepsHigher ==
    Returned("roll_ability_check") =>
        /\ (call.advantage /\ ~call.disadvantage) =>
               /\ Len(drawn) = 2
               /\ KeptD20(result, Max(drawn[1], drawn[2]))
               /\ result.total - call.bonus = Max(drawn[1], drawn[2])
               /\ Has(result, "advantage") /\ result.advantage = TRUE
               /\ ~Has(result, "disadvantage")
        /\ (call.disadvantage /\ ~call.advantage) =>
               /\ Len(drawn) = 2
               /\ KeptD20(result, Min(drawn[1], drawn[2]))
               /\ result.total - call.bonus = Min(drawn[1], drawn[2])
               /\ Has(result, "disadvantage") /\ result.disadvantage = TRUE
               /\ ~Has(result, "advantage")

\* Advantage with a negative modifier, the second die the higher one.
C5_Witness ==
    /\ Returned("roll_ability_check")
    /\ call.advantage /\ ~call.disadvantage /\ call.bonus = -1
    /\ drawn = <<3, 17>>
    /\ result.rolls = <<17>>
    /\ result.total = 16

\* C6: advantage and disadvantage together behave as neither: one d20 is
\* rolled and the outcome is the one the plain call returns for the same
\* face, with neither tag.
C6_BothCancel ==
    (Returned("roll_ability_check") /\ call.advantage /\ call.disadvantage) =>
        /\ Len(drawn) = 1
        /\ result = roll_ability_check(call.bonus, FALSE, FALSE, drawn).ret
        /\ KeptD20(result, drawn[1])
        /\ result.total = drawn[1] + call.bonus
        /\ result.ability_modifier = call.bonus
        /\ ~Has(result, "advantage") /\ ~Has(result, "disadvantage")

C6_Witness ==
    /\ Returned("roll_ability_check")
    /\ call.advantage /\ call.disadvantage /\ call.bonus = 1
    /\ drawn = <<20>>
    /\ result.total = 21

\* C7: each composite roll adds its bonus to total once and records it:
\* attack_bonus, dex_modifier, damage_bonus (on a valid notation, on top of
\* sum(rolls) + the notation's modifier) and ability_modifier (on top of the
\* kept d20 face).
C7_BonusAddedOnce ==
    /\ Returned("roll_attack") =>
           /\ KeptD20(result, drawn[1])
           /\ result.total = drawn[1] + call.bonus
           /\ result.attack_bonus = call.bonus
    /\ Returned("roll_initiative") =>
           /\ KeptD20(result, drawn[1])
           /\ result.total = drawn[1] + call.bonus
           /\ result.dex_modifier = call.bonus
    /\ (Returned("roll_damage") /\ ~IsError(result)) =>
           /\ result.rolls = drawn
           /\ result.total = SumSeq(drawn) + result.modifier + call.bonus
           /\ result.damage_bonus = call.bonus
           /\ \A v \in ValidNotations :
                  call.dice_string = v.dice_string =>
                      result.total = SumSeq(drawn) + v.modifier + call.bonus
    /\ Returned("roll_ability_check") =>
           /\ result.total = result.rolls[1] + call.bonus
           /\ result.ability_modifier = call.bonus
           /\ result.rolls[1] \in {drawn[i] : i \in 1..Len(drawn)}

\* Damage '2d6+3' with bonus -1 and the dice [4, 5]: 4 + 5 + 3 - 1.
C7_Witness ==
    /\ Returned("roll_damage")
    /\ call.dice_string = <<"2", "d", "6", "+", "3">> /\ call.bonus = -1
    /\ drawn = <<4, 5>>
    /\ result.total = 11
    /\ result.damage_bonus = -1

\* C8: roll_damage on an invalid or unsupported notation returns an error
\* outcome that carries the message and the damage_bonus, has no rolls, and
\* has total 0 whatever the damage_bonus.
C8_DamageErrorTotalZero ==
    (Returned("roll_damage") /\ _parse_dice_string(call.dice_string).ok = FALSE) =>
        /\ IsError(result)
        /\ result.damage_bonus = call.bonus
        /\ ~Has(result, "rolls")
        /\ result.total = 0

(***************************************************************************)
(* Properties of the party builder, checked under PartySpec.               *)
(***************************************************************************)
DistinctIds(ms) ==
    \A i, j \in 1..Len(ms) : i # j => ms[i].id # ms[j].id

\* C9: whatever add_member, clear, build_payload, is_full and members calls
\* are made, the builder holds at most 3 members with pairwise distinct ids,
\* and the members stay in the order of their successful additions: a step
\* leaves the list, empties it, or appends the accepted member at its end.
C9_PartyInvariant ==
    /\ [](Len(_members) <= 3 /\ DistinctIds(_members))
    /\ [][ \/ _members' = _members
           \/ last'.op = "clear" /\ _members' = <<>>
           \/ /\ last'.op = "add_member" /\ ~last'.error.raised
              /\ _members' = Append(_members, last'.member) ]_vars

\* A full party of three that has just refused a fourth, valid, member.
C9_Witness ==
    /\ Len(_members) = 3
    /\ last.op = "add_member" /\ last.error.raised
    /\ last.member = Member("d")
    /\ <<_members[1].id, _members[2].id, _members[3].id>> = <<"c", "a", "b">>

\* C10: when add_member raises, the builder is as before the call: same
\* members in the same order, same coin, rations and party_tags.
C10_FailedAddChangesNothing ==
    [][ (last'.op = "add_member" /\ last'.error.raised) =>
            /\ _members' = _members
            /\ coin' = coin /\ rations' = rations /\ party_tags' = party_tags ]_vars

\* A member failing validation was refused by a party holding two members.
C10_Witness ==
    /\ last.op = "add_member" /\ last.error.raised
    /\ last.error.message = "HP must be between 8 and 14."
    /\ Len(_members) = 2

FullMessage == "Party already has the maximum number of members."

DuplicateMessage == "Member with id '{member.id}' already exists."

\* C11: add_member decides in a fixed order: a builder holding 3 members
\* raises the party-full error whatever the new member is; otherwise an id
\* equal to an existing member's raises the duplicate-id error, even for an
\* otherwise invalid member; otherwise it raises what validate raises and,
\* only if validate passes, appends the member at the end.  The two
\* rejections differ by message from each other and from every validation
\* failure.
C11_AddMemberOrder ==
    [][ last'.op = "add_member" =>
          /\ FullMessage # DuplicateMessage
          /\ IF Len(_members) >= 3
             THEN /\ last'.error.raised /\ last'.error.message = FullMessage
                  /\ _members' = _members
             ELSE IF \E i \in 1..Len(_members) : _members[i].id = last'.member.id
             THEN /\ last'.error.raised /\ last'.error.message = DuplicateMessage
                  /\ last'.error.key = last'.member.id
                  /\ _members' = _members
             ELSE /\ last'.error = validate(last'.member)
                  /\ last'.error.message \notin {FullMessage, DuplicateMessage}
                  /\ IF last'.error.raised
                     THEN _members' = _members
                     ELSE _members' = Append(_members, last'.member) ]_vars

\* A full party refused a member that has the id of a member and an hp out
\* of range: the party-full error, not the other two.
C11_Witness ==
    /\ last.op = "add_member"
    /\ Len(_members) = 3
    /\ last.member = With(Member("a"), "hp", IntVal(15))
    /\ \E i \in 1..3 : _members[i].id = "a"
    /\ last.error.message = FullMessage

(***************************************************************************)
(* Properties of PartyMember, checked under MemberSpec.                    *)
(***************************************************************************)
IsIntIn(x, lo, hi) == x.type = "int" /\ x.value \in lo..hi

AllNonEmpty(items) == \A i \in 1..Len(items) : items[i] # ""

StatsKeySetOk(m) ==
    {m.stats[i].key : i \in 1..Len(m.stats)} = {"str", "dex", "int", "wit", "charm"}

StatValuesOk(m) == \A i \in 1..Len(m.stats) : IsIntIn(m.stats[i].value, -1, 3)

\* Every rule of the template holds of the member m.
Conforms(m) ==
    /\ m.id # "" /\ m.name # "" /\ m.role # "" /\ m.concept # ""
    /\ StatsKeySetOk(m)
    /\ StatValuesOk(m)
    /\ Len(m.traits) = 2 /\ AllNonEmpty(m.traits)
    /\ Len(m.loadout) = 2 /\ AllNonEmpty(m.loadout)
    /\ IsIntIn(m.hp, 8, 14)
    /\ Len(m.tags) \in {1, 2} /\ AllNonEmpty(m.tags)

\* C12: validate returns without raising if and only if id, name, role and
\* concept are non-empty, the stats key set is exactly {str, dex, int, wit,
\* charm}, every stat value is an integer in [-1, 3], traits and loadout have
\* exactly 2 entries, all non-empty, hp is an integer in [8, 14] and tags has
\* 1 or 2 entries, all non-empty; otherwise it raises PartyValidationError;
\* it never modifies the member.
C12_ValidateIffConforms ==
    [][ last'.op = "validate" =>
          /\ last'.member = last.member
          /\ ~last'.error.raised <=> Conforms(last.member)
          /\ last'.error.raised =>
                 last'.error = PartyValidationError(last'.error.message,
                                                    last'.error.key)
          /\ last'.error.raised => last'.error.message # "" ]_vars

\* A member at the upper limits (hp 14, stats up to 3, two tags) passes.
C12_Witness ==
    /\ last.op = "validate"
    /\ last.member = Limits("a")
    /\ ~last.error.raised

MinOf(S) == CHOOSE x \in S : \A y \in S : x <= y

\* The rules in the order id, name, role, concept, stats key set, stat
\* values, traits, loadout, hp, tags: the numbers of those m violates.
BrokenRules(m) ==
    {k \in 1..10 :
        CASE k = 1 -> m.id = ""
          [] k = 2 -> m.name = ""
          [] k = 3 -> m.role = ""
          [] k = 4 -> m.concept = ""
          [] k = 5 -> ~StatsKeySetOk(m)
          [] k = 6 -> ~StatValuesOk(m)
          [] k = 7 -> ~(Len(m.traits) = 2 /\ AllNonEmpty(m.traits))
          [] k = 8 -> ~(Len(m.loadout) = 2 /\ AllNonEmpty(m.loadout))
          [] k = 9 -> ~IsIntIn(m.hp, 8, 14)
          [] k = 10 -> ~(Len(m.tags) \in {1, 2} /\ AllNonEmpty(m.tags))}

\* The rule an error message is about, in the numbering of BrokenRules.
MessageRule(message) ==
    CASE message = "Member id must be provided." -> 1
      [] message = "Member name must be provided." -> 2
      [] message = "Member role must be provided." -> 3
      [] message = "Member concept must be provided." -> 4
      [] message = "Stats must include exactly the keys: str, dex, int, wit, charm" -> 5
      [] message = "Stat '{key}' must be an integer." -> 6
      [] message = "Stat '{key}' must be between -1 and 3." -> 6
      [] message = "Member must have exactly 2 traits." -> 7
      [] message = "Trait descriptions cannot be empty." -> 7
      [] message = "Member must have exactly 2 loadout items." -> 8
      [] message = "Loadout items cannot be empty." -> 8
      [] message = "HP must be an integer." -> 9
      [] message = "HP must be between 8 and 14." -> 9
      [] message = "Member must have 1 or 2 tags." -> 10
      [] message = "Tags cannot be empty strings." -> 10
      [] OTHER -> 0

\* C13 as stated: the single error validate raises is the one of the
\* earliest violated rule in the order id, name, role, concept, stats key
\* set, stat values, traits (exactly 2 and all non-empty), loadout (exactly 2
\* and all non-empty), hp, tags; a member with an empty trait and a wrong
\* number of loadout items fails with a traits error.
C13_FailFastClaimedOrder ==
    (last.op = "validate" /\ BrokenRules(last.member) # {}) =>
        /\ last.error.raised
        /\ MessageRule(last.error.message) = MinOf(BrokenRules(last.member))

\* The checks in the order validate makes them: as BrokenRules, but both
\* lengths are checked before the entries of traits and loadout.
BrokenChecks(m) ==
    {k \in 1..12 :
        CASE k = 1 -> m.id = ""
          [] k = 2 -> m.name = ""
          [] k = 3 -> m.role = ""
          [] k = 4 -> m.concept = ""
          [] k = 5 -> ~StatsKeySetOk(m)
          [] k = 6 -> ~StatValuesOk(m)
          [] k = 7 -> Len(m.traits) # 2
          [] k = 8 -> Len(m.loadout) # 2
          [] k = 9 -> ~AllNonEmpty(m.traits)
          [] k = 10 -> ~AllNonEmpty(m.loadout)
          [] k = 11 -> ~IsIntIn(m.hp, 8, 14)
          [] k = 12 -> ~(Len(m.tags) \in {1, 2} /\ AllNonEmpty(m.tags))}

MessageCheck(message) ==
    CASE message = "Member id must be provided." -> 1
      [] message = "Member name must be provided." -> 2
      [] message = "Member role must be provided." -> 3
      [] message = "Member concept must be provided." -> 4
      [] message = "Stats must include exactly the keys: str, dex, int, wit, charm" -> 5
      [] message = "Stat '{key}' must be an integer." -> 6
      [] message = "Stat '{key}' must be between -1 and 3." -> 6
      [] message = "Member must have exactly 2 traits." -> 7
      [] message = "Member must have exactly 2 loadout items." -> 8
      [] message = "Trait descriptions cannot be empty." -> 9
      [] message = "Loadout items cannot be empty." -> 10
      [] message = "HP must be an integer." -> 11
      [] message = "HP must be between 8 and 14." -> 11
      [] message = "Member must have 1 or 2 tags." -> 12
      [] message = "Tags cannot be empty strings." -> 12
      [] OTHER -> 0

\* C13 as amended: the single error validate raises is the one of the
\* earliest violated check in the order id, name, role, concept, stats key
\* set, stat values, number of traits, number of loadout items, traits all
\* non-empty, loadout all non-empty, hp, tags.  A member without one of the
\* five stats keys, with id, name, role and concept present, fails with the
\* stats key-set error whatever its other fields; a member with two traits,
\* one of them empty, and a wrong number of loadout items fails with the
\* loadout-count error.
C13_FailFastOrder ==
    last.op = "validate" =>
        /\ BrokenChecks(last.member) # {} =>
               /\ last.error.raised
               /\ MessageCheck(last.error.message) = MinOf(BrokenChecks(last.member))
        /\ (BrokenChecks(last.member) \cap (1..4) = {} /\ ~StatsKeySetOk(last.member))
               => last.error.message
                      = "Stats must include exactly the keys: str, dex, int, wit, charm"
        /\ ( /\ BrokenChecks(last.member) \cap (1..6) = {}
             /\ Len(last.member.traits) = 2 /\ ~AllNonEmpty(last.member.traits)
             /\ Len(last.member.loadout) # 2 )
               => last.error.message = "Member must have exactly 2 loadout items."

\* Two traits, the first empty, and one loadout item: the loadout-count
\* error.
C13_Witness ==
    /\ last.op = "validate"
    /\ last.member.traits = <<"", "curious">>
    /\ last.member.loadout = <<"rope">>
    /\ last.error.message = "Member must have exactly 2 loadout items."

(***************************************************************************)
(* Properties of build_payload, checked under PartySpec.                   *)
(***************************************************************************)
\* C14: build_payload changes nothing in the builder (members, coin,
\* rations, party_tags), and a second call that directly follows a first one
\* returns the same payload.
C14_BuildPayloadPure ==
    [][ last'.op = "build_payload" =>
          /\ _members' = _members
          /\ coin' = coin /\ rations' = rations /\ party_tags' = party_tags
          /\ last.op = "build_payload" => last'.returned = last.returned ]_vars

\* The payload of a full party was built and the three members are still
\* there.
C14_Witness ==
    /\ last.op = "build_payload"
    /\ Len(_members) = 3
    /\ Len(last.returned.party.members) = 3
    /\ party_tags = <<"grim">>

\* C15: for a builder holding m1..mk, build_payload returns max_size 3, the
\* members transcribed field for field in insertion order, the resources
\* {coin, rations} and the party_tags of the builder, the flag
\* 'party_initialized', one inventory entry (owner 'party', item_id
\* 'basic_kit') and one compact line per member, in the order of the members.
C15_PayloadContent ==
    last.op = "build_payload" =>
        /\ DOMAIN last.returned = {"party", "state_delta", "party_compact"}
        /\ last.returned.party.max_size = 3
        /\ Len(last.returned.party.members) = Len(_members)
        /\ \A i \in 1..Len(_members) :
               /\ DOMAIN last.returned.party.members[i]
                      = {"id", "name", "role", "concept", "stats", "traits",
                         "loadout", "hp", "tags"}
               /\ \A f \in DOMAIN last.returned.party.members[i] :
                      last.returned.party.members[i][f] = _members[i][f]
        /\ last.returned.party.resources = [coin |-> coin, rations |-> rations]
        /\ last.returned.party.party_tags = party_tags
        /\ \E i \in 1..Len(last.returned.state_delta.flags.set) :
               last.returned.state_delta.flags.set[i] = "party_initialized"
        /\ last.returned.state_delta.inventory_add
               = <<[owner |-> "party", item_id |-> "basic_kit"]>>
        /\ Len(last.returned.party_compact) = Len(_members)
        /\ \A i \in 1..Len(_members) :
               /\ SubSeq(last.returned.party_compact[i], 1, 3)
                      = <<_members[i].name, "-", _members[i].role>>
               /\ last.returned.party_compact[i] = _member_to_compact(_members[i])

\* Two valid members, coin 10, rations 3, tags ['adventure'].
C15_Witness ==
    /\ last.op = "build_payload"
    /\ coin = 10 /\ rations = 3 /\ party_tags = <<"adventure">>
    /\ _members = <<Limits("a"), Member("b")>>
    /\ last.returned.party.resources = [coin |-> 10, rations |-> 3]
    /\ last.returned.party.members[1].name = "Bo"
    /\ last.returned.party_compact[2][1] = "Ann"

(***************************************************************************)
(* The key stat of the compact line, checked under MemberSpec.             *)
(***************************************************************************)
KeyOrder == <<"str", "dex", "int", "wit", "charm">>

KeyLabels == <<"STR", "DEX", "INT", "WIT", "CHARM">>

\* The value stored in stats under key.
StatValue(stats, key) ==
    (CHOOSE item \in {stats[i] : i \in 1..Len(stats)} : item.key = key).value.value

\* A value of -1..3 with its explicit sign.
SignedDigit(v) ==
    CASE v = -1 -> <<"-", "1">> [] v = 0 -> <<"+", "0">> [] v = 1 -> <<"+", "1">>
      [] v = 2 -> <<"+", "2">> [] v = 3 -> <<"+", "3">>

\* C16: for every valid stats mapping the key stat of the compact line is
\* the stat with the highest value and, among those tied for it, the
\* earliest in the order str, dex, int, wit, charm; it is rendered as the
\* upper-cased key followed by the signed value.
C16_KeyStat ==
    last.op = "_member_to_compact" =>
        \E i \in 1..5 :
            /\ \A j \in 1..5 : StatValue(last.member.stats, KeyOrder[j])
                                   <= StatValue(last.member.stats, KeyOrder[i])
            /\ \A j \in 1..(i - 1) : StatValue(last.member.stats, KeyOrder[j])
                                         < StatValue(last.member.stats, KeyOrder[i])
            /\ SubSeq(last.returned, 4, 8)
                   = <<" ", KeyLabels[i]>>
                     \o SignedDigit(StatValue(last.member.stats, KeyOrder[i]))
                     \o <<" HP">>

\* {str: 2, dex: 2, int: 0, wit: 0, charm: 0} renders 'STR+2'.
C16_Witness ==
    /\ last.op = "_member_to_compact"
    /\ last.member.stats = Stats(IntVal(2), IntVal(2), IntVal(0), IntVal(0), IntVal(0))
    /\ SubSeq(last.returned, 5, 7) = <<"STR", "+", "2">>

(***************************************************************************)
(* Properties of the notation accepted by roll_dice, checked under Spec.   *)
(***************************************************************************)
\* The valid notations written with an upper-case marker.
UpperNotations ==
    { [dice_string |-> c.token \o <<"D">> \o NatToStr(S) \o m.token,
       count |-> c.count, sides |-> S, modifier |-> m.modifier] :
      c \in WrittenCounts, S \in dice_types, m \in WrittenModifiers }

\* C17: the marker is read case-insensitively: a valid notation written
\* with 'D' ('D20', '2D6+3') gives a success outcome with the count, sides
\* and modifier of its lower-case form.
C17_UpperCaseMarker ==
    Returned("roll_dice") =>
        \A v \in UpperNotations :
            call.dice_string = v.dice_string =>
                /\ ~IsError(result)
                /\ result.count = v.count
                /\ result.sides = v.sides
                /\ result.modifier = v.modifier

\* The valid notations in which whitespace is inserted.
SpacedValid == {v \in ValidNotations : v.dice_string \in SpacedBases}

\* One character of chars inserted at any position, a space at both ends,
\* and '2d6 + 3'; base is the notation without the inserted characters.
WhitespaceInserted(chars) ==
    UNION { {[dice_string |-> Insert(v.dice_string, i, c), base |-> v] :
                i \in 0..Len(v.dice_string), c \in chars} : v \in SpacedValid }
    \cup { [dice_string |-> Insert(Insert(v.dice_string, Len(v.dice_string), " "),
                                   0, " "),
            base |-> v] : v \in SpacedValid }
    \cup { [dice_string |-> <<"2", "d", "6", " ", "+", " ", "3">>,
            base |-> [dice_string |-> <<"2", "d", "6", "+", "3">>,
                      count |-> 2, sides |-> 6, modifier |-> 3]] }

AnyWhitespaceInserted == WhitespaceInserted(Whitespace)

SpacesInserted == WhitespaceInserted({" "})

\* C18 as stated: whitespace (spaces, and other whitespace such as tabs)
\* inserted at any position of a valid notation leaves the count, sides and
\* modifier those of the whitespace-free notation.
C18_WhitespaceIgnored ==
    Returned("roll_dice") =>
        \A w \in AnyWhitespaceInserted :
            call.dice_string = w.dice_string =>
                /\ ~IsError(result)
                /\ result.count = w.base.count
                /\ result.sides = w.base.sides
                /\ result.modifier = w.base.modifier

\* C18 as amended: space characters inserted at any position of a valid
\* notation ('2d6 + 3', ' d20 ') leave the count, sides and modifier those of
\* the notation without them.
C18_SpacesIgnored ==
    Returned("roll_dice") =>
        \A w \in SpacesInserted :
            call.dice_string = w.dice_string =>
                /\ ~IsError(result)
                /\ result.count = w.base.count
                /\ result.sides = w.base.sides
                /\ result.modifier = w.base.modifier

\* '2d6 + 3' rolled as 2d6+3.
C18_Witness ==
    /\ Returned("roll_dice")
    /\ call.dice_string = <<"2", "d", "6", " ", "+", " ", "3">>
    /\ ~IsError(result)
    /\ result.count = 2 /\ result.sides = 6 /\ result.modifier = 3
    /\ result.total = SumSeq(drawn) + 3

\* C19: every success outcome of roll_dice has count >= 1 and sides in
\* {4, 6, 8, 10, 12, 20, 100}; a notation with the explicit count 0 ('0d6',
\* '0d20+3') is never a successful roll with an empty rolls list.
C19_CountAtLeastOne ==
    Returned("roll_dice") =>
        /\ ~IsError(result) =>
               /\ result.count >= 1
               /\ result.sides \in {4, 6, 8, 10, 12, 20, 100}
        /\ \A S \in dice_types, m \in WrittenModifiers :
               call.dice_string = <<"0", "d">> \o NatToStr(S) \o m.token
                   => IsError(result)

\* One sign followed by one or more decimal digits.
SignedDigits(t) ==
    /\ Len(t) >= 2
    /\ t[1] \in {"+", "-"}
    /\ \A i \in 2..Len(t) : t[i] \in Digits

\* A valid count and sides followed by a text that is not empty and is not a
\* sign and digits.
MalformedModifierNotations ==
    { c.token \o <<"d">> \o NatToStr(S) \o t :
      c \in WrittenCounts, S \in dice_types,
      t \in {x \in Tails : x # <<>> /\ ~SignedDigits(x)} }

\* C20: a notation whose text after the sides token is non-empty and is not
\* exactly one '+' or '-' followed by one or more decimal digits ('d20+',
\* 'd20x', 'd20+-3', 'd20--3', 'd20++3', 'd20+3a') gives an error outcome,
\* never a success outcome with some modifier.
C20_MalformedModifierIsError ==
    (Returned("roll_dice") /\ call.dice_string \in MalformedModifierNotations)
        => IsError(result)

(***************************************************************************)
(* The resources and the marker of the payload, checked under PartySpec.   *)
(***************************************************************************)
\* C21: in every PartyBuilder state and in every payload it builds, coin and
\* rations are non-negative: a negative coin or rations never reaches
\* party.resources.
C21_ResourcesNonNegative ==
    /\ coin >= 0 /\ rations >= 0
    /\ last.op = "build_payload" =>
           /\ last.returned.party.resources.coin >= 0
           /\ last.returned.party.resources.rations >= 0

\* C27: every payload build_payload returns has 'party_initialized' in
\* state_delta.flags.set and the basic_kit entry in inventory_add, whatever
\* the number of members, zero included.
C27_MarkerUnconditional ==
    last.op = "build_payload" =>
        /\ InSeq("party_initialized", last.returned.state_delta.flags.set)
        /\ InSeq([owner |-> "party", item_id |-> "basic_kit"],
                 last.returned.state_delta.inventory_add)

\* The payload of a builder without members carries the marker.
C27_Witness ==
    /\ last.op = "build_payload"
    /\ _members = <<>>
    /\ last.returned.party.members = <<>>
    /\ last.returned.state_delta.flags.set = <<"party_initialized">>

(***************************************************************************)
(* The formatted roll, checked under FormatSpec.                           *)
(***************************************************************************)
SectionLabels ==
    <<RollsLabel, ModifierLabel, AbilityLabel, AttackLabel, CriticalLabel,
      FumbleLabel, AdvantageLabel, DisadvantageLabel>>

IsSectionLabel(piece) == InSeq(piece, SectionLabels)

IsSeparator(piece) == piece = " | "

Rank(label) == CHOOSE i \in 1..Len(SectionLabels) : SectionLabels[i] = label

\* The section labels of a formatted roll, in the order they appear.
LabelsOf(text) == SelectSeq(text, IsSectionLabel)

Shows(text, label) == InSeq(label, text)

\* C22: an error outcome is formatted as the failure prefix followed by the
\* error message and nothing else; a success outcome starts with the notation
\* and the total, and its sections are, each at most once and in this order:
\* die results, modifier (iff non-zero), ability modifier (iff present and
\* non-zero), attack bonus (iff present and non-zero), critical (iff
\* is_critical) or else fumble (iff is_fumble and not is_critical), advantage
\* or else disadvantage; damage_bonus and dex_modifier add no section.
C22_FormatSections ==
    pc = "formatted" =>
        IF IsError(result)
        THEN /\ formatted = <<ErrorLabel>> \o StrError(result.error)
             /\ LabelsOf(formatted) = <<>>
        ELSE LET labels == LabelsOf(formatted)
                 head   == <<DieLabel>> \o result.dice_string \o <<" = ">>
                           \o IntToStr(result.total) \o <<" (">>
             IN  /\ SubSeq(formatted, 1, Len(head)) = head
                 /\ formatted[Len(formatted)] = ")"
                 /\ \A i \in 1..(Len(labels) - 1) :
                        Rank(labels[i]) < Rank(labels[i + 1])
                 /\ Len(SelectSeq(formatted, IsSeparator)) = Len(labels) - 1
                 /\ Shows(formatted, RollsLabel)
                 /\ Shows(formatted, ModifierLabel) <=> result.modifier # 0
                 /\ Shows(formatted, AbilityLabel)
                        <=> (Has(result, "ability_modifier")
                             /\ result.ability_modifier # 0)
                 /\ Shows(formatted, AttackLabel)
                        <=> (Has(result, "attack_bonus") /\ result.attack_bonus # 0)
                 /\ Shows(formatted, CriticalLabel) <=> result.is_critical
                 /\ Shows(formatted, FumbleLabel)
                        <=> (result.is_fumble /\ ~result.is_critical)
                 /\ Shows(formatted, AdvantageLabel) <=> Get(result, "advantage")
                 /\ Shows(formatted, DisadvantageLabel)
                        <=> (Get(result, "disadvantage") /\ ~Get(result, "advantage"))

\* 2d20 rolled a 20 and a 1: both flags are set and only the critical marker
\* is shown.
C22_Witness ==
    /\ pc = "formatted"
    /\ ~IsError(result)
    /\ result.is_critical /\ result.is_fumble
    /\ Shows(formatted, CriticalLabel) /\ ~Shows(formatted, FumbleLabel)

(***************************************************************************)
(* Concurrent callers of add_member, checked under ConcSpec.               *)
(***************************************************************************)
\* C23: when the callers of add_member take the builder one at a time, the
\* builder never holds more than 3 members nor two members with the same id;
\* without exclusive access both are reachable (C23_Witness).
C23_SerializedCallsKeepInvariant ==
    exclusive => (Len(_members) <= MAX_MEMBERS /\ DistinctIds(_members))

\* Two callers without exclusive access passed the tests before either
\* appended: four members, two of them with the same id.
C23_Witness ==
    /\ ~exclusive
    /\ Len(_members) > MAX_MEMBERS
    /\ ~DistinctIds(_members)
    /\ \A t \in Callers : callers[t] = Outside

(***************************************************************************)
(* The payload and the builder's objects, checked under AliasSpec.         *)
(***************************************************************************)
CallerModifications ==
    {"payload[key] = value", "payload.party.party_tags.append",
     "payload.party.members[j][field] changed", "members.clear"}

\* C28: a modification the caller makes to a returned payload (a new
\* top-level key, an append to party.party_tags, a change of a member's
\* stats, traits, loadout or tags) or to the list the members property
\* returned changes neither what the builder holds nor the content of any
\* other payload.
C28_PayloadIndependent ==
    [][ last'.op \in CallerModifications =>
          /\ BuilderContent(heap', _members', coin', rations', party_tags')
                 = BuilderContent(heap, _members, coin, rations, party_tags)
          /\ \A k \in 1..Len(payloads) :
                 k # last'.returned =>
                     PayloadContent(heap', payloads'[k])
                         = PayloadContent(heap, payloads[k]) ]_vars

(***************************************************************************)
(* Properties of the session                                               *)
(***************************************************************************)
\* A 'party' key and no 'scenarios' key: the single-party shape.
IsLegacy(file) ==
    /\ file.exists /\ file.json /\ isinstance_dict(file.data)
    /\ Has(file.data.items, "party") /\ ~Has(file.data.items, "scenarios")

\* A 'scenarios' object: the scenario-keyed shape.
IsScenarioKeyed(file) ==
    /\ file.exists /\ file.json /\ isinstance_dict(file.data)
    /\ Has(file.data.items, "scenarios")
    /\ isinstance_dict(file.data.items.scenarios)

\* C24: loading a file that holds an object with a 'party' key and no
\* 'scenarios' key gives the store {'scenarios': {'default': the object}};
\* loading a file that holds a 'scenarios' object gives these scenarios
\* unchanged; in both cases the loader of the CLI and the loader of the GUI
\* return the same store.
C24_LegacyUpgraded ==
    [][LoadPartyState =>
          /\ IsLegacy(party_state_file) =>
                /\ DOMAIN party_store'.scenarios = {"default"}
                /\ party_store'.scenarios["default"] = party_state_file.data
          /\ IsScenarioKeyed(party_state_file) =>
                party_store'.scenarios = party_state_file.data.items.scenarios.items
          /\ IsLegacy(party_state_file) \/ IsScenarioKeyed(party_state_file) =>
                load_party_state(party_state_file).store
                    = load_party_state_gui(party_state_file).store]_vars

\* The GUI has loaded the single-party file and holds it under 'default'.
C24_Witness ==
    /\ app = "gui" /\ master_pc = "scenario"
    /\ IsLegacy(party_state_file)
    /\ Has(party_store.scenarios, "default")
    /\ party_store.scenarios["default"] = OldParty

\* 'party_initialized' is in state_delta.flags.set of the payload.
HasMarker(payload) ==
    /\ isinstance_dict(payload)
    /\ Has(payload.items, "state_delta")
    /\ Has(payload.items.state_delta, "flags")
    /\ Has(payload.items.state_delta.flags, "set")
    /\ InSeq("party_initialized", payload.items.state_delta.flags.set)

Marked(scenarios, name) == Has(scenarios, name) /\ HasMarker(scenarios[name])

CreationFlow == {"party_size", "member", "coin", "rations", "party_tags"}

\* The creation flow runs only for a scenario whose stored payload lacks the
\* marker.
FlowOnlyWithoutMarker ==
    master_pc \in CreationFlow =>
        ~Marked(party_store.scenarios, current_scenario.str)

\* Selecting a scenario whose stored payload has the marker goes to play and
\* leaves the store and the file alone.
MarkedGoesToPlay ==
    (/\ master_pc = "scenario"
     /\ current_scenario' # None
     /\ Marked(party_store.scenarios, current_scenario'.str))
    => master_pc' = "play" /\ UNCHANGED <<party_store, party_state_file>>

\* No step changes the payload stored for another scenario than the
\* selected one.
OthersUnchanged ==
    \A n \in DOMAIN party_store.scenarios :
        \/ current_scenario' # None /\ n = current_scenario'.str
        \/ Has(party_store'.scenarios, n)
           /\ party_store'.scenarios[n] = party_store.scenarios[n]

\* C25 as stated: the creation flow runs only when the stored payload of
\* the selected scenario lacks the marker; once the stored payload of a
\* scenario has the marker, no step of ensure_party_initialized replaces or
\* rewrites it; saving a new party leaves the other scenarios' payloads as
\* they were.
C25_MarkedNeverRewritten ==
    /\ []FlowOnlyWithoutMarker
    /\ [][/\ MarkedGoesToPlay
          /\ OthersUnchanged
          /\ \A n \in DOMAIN party_store.scenarios :
                 Marked(party_store.scenarios, n) =>
                     /\ Has(party_store'.scenarios, n)
                     /\ party_store'.scenarios[n] = party_store.scenarios[n]]_vars

\* C25 (amended): the creation flow runs only when the stored payload of the
\* selected scenario lacks the marker; a call that finds the marker goes to
\* play with the store and the file unchanged; a stored payload with the
\* marker is never changed, except that the GUI call that has just created
\* the party adds 'initial_scene' to that payload, all else kept, and saves
\* again; the other scenarios' payloads are left as they were.
C25_GatedByMarker ==
    /\ []FlowOnlyWithoutMarker
    /\ [][/\ MarkedGoesToPlay
          /\ OthersUnchanged
          /\ \A n \in DOMAIN party_store.scenarios :
                 Marked(party_store.scenarios, n) =>
                     /\ Has(party_store'.scenarios, n)
                     /\ \/ party_store'.scenarios[n] = party_store.scenarios[n]
                        \/ /\ app = "gui" /\ master_pc = "first_scene"
                           /\ n = current_scenario.str
                           /\ isinstance_dict(party_store'.scenarios[n])
                           /\ DOMAIN party_store'.scenarios[n].items
                                  = DOMAIN party_store.scenarios[n].items
                                        \cup {"initial_scene"}
                           /\ \A k \in DOMAIN party_store.scenarios[n].items :
                                  party_store'.scenarios[n].items[k]
                                      = party_store.scenarios[n].items[k]]_vars

\* A stored scenario with the marker was selected from a store that also
\* holds a scenario without it: play without a question of the flow.
C25_Witness ==
    /\ master_pc = "play"
    /\ last.op = "_ensure_scenario_selected"
    /\ Marked(party_store.scenarios, current_scenario.str)
    /\ Has(party_store.scenarios, "ruins")
    /\ party_state_file.data.items.scenarios.items = party_store.scenarios

AwaitedResults ==
    Len(SelectSeq(workers, LAMBDA w : w.target = "_resolve_challenge_thread"))
    + Len(SelectSeq(after_queue, LAMBDA c : c.callback = "_finalize_challenge"))

FailedFinalize ==
    /\ last'.op = "_finalize_challenge"
    /\ startswith_error(Head(after_queue).response)

SuccessfulFinalize ==
    /\ last'.op = "_finalize_challenge"
    /\ ~startswith_error(Head(after_queue).response)

ConfirmedCancel ==
    /\ last'.op = "_cancel_active_challenge"
    /\ last'.confirm

\* C29: a challenge is created only when none is active and an active one
\* is never replaced; while a submitted result awaits the master response
\* the challenge is active, submit and cancel are disabled and no second
\* result is awaited; a response that starts with the error marker leaves
\* the same challenge active and enables submit and cancel; the challenge
\* is cleared only by a confirmed cancel or by a successful response, and
\* then the button that creates a challenge is enabled.
C29_ChallengeLifecycle ==
    /\ [](/\ AwaitedResults <= 1
          /\ AwaitedResults = 1 =>
                /\ active_dice_challenge # None
                /\ challenge_submit_button = "disabled"
                /\ challenge_cancel_button = "disabled"
          /\ active_dice_challenge # None =>
                challenge_button = "disabled" /\ challenge_frame = "packed")
    /\ [][/\ active_dice_challenge' # active_dice_challenge =>
                \/ /\ active_dice_challenge = None
                   /\ last'.op = "show_dice_challenge_dialog"
                \/ /\ active_dice_challenge' = None
                   /\ ConfirmedCancel \/ SuccessfulFinalize
                   /\ AwaitedResults' = 0
                   /\ challenge_button' = "normal"
          /\ FailedFinalize =>
                /\ active_dice_challenge' = active_dice_challenge
                /\ active_dice_challenge' # None
                /\ challenge_submit_button' = "normal"
                /\ challenge_cancel_button' = "normal"
          /\ AwaitedResults = 1 =>
                ~ConfirmedCancel /\ last'.op # "_submit_challenge_result"]_vars

\* The master response to a submitted result failed: the challenge is still
\* there and can be submitted again or cancelled.
C29_Witness ==
    /\ last.op = "_finalize_challenge"
    /\ active_dice_challenge # None
    /\ challenge_submit_button = "normal"
    /\ challenge_cancel_button = "normal"
    /\ AwaitedResults = 0

\* C30: at most one thread calling get_master_response is in flight,
\* whether started by the send button, by Control-Return or by a submitted
\* challenge result, and in conversation_history each user entry is
\* followed at once by the assistant entry of its request (the last entry
\* may be a user entry whose request is awaiting the model).
C30_OneRequestInFlight ==
    /\ Len(workers) <= 1
    /\ \A i \in 1..Len(conversation_history) :
           conversation_history[i].role = "user" =>
               IF i < Len(conversation_history)
               THEN conversation_history[i + 1] =
                        HistoryEntry("assistant",
                                     Reply(conversation_history[i].content))
               ELSE \E j \in 1..Len(workers) : workers[j].pc = "create"

====
